---- MODULE Spec2Model ----
(***************************************************************************)
(* Linear-scan SSA register allocator (runtime/vm/compiler/backend/        *)
(* linearscan.cc): live ranges, use intervals and use positions, split     *)
(* siblings, the allocation loop, spill slots and control flow resolution. *)
(*                                                                         *)
(* Heap objects are kept in arenas and named by their index:               *)
(*   ranges[rid]  a LiveRange, slots[sid] a Location cell that use         *)
(*   positions, hints and parallel moves point to.  0 is the null pointer. *)
(* A hint is a Location*: a positive number is a slot id, a negative       *)
(* number -rid is the assigned_location_ field of range rid.               *)
(***************************************************************************)
EXTENDS Integers, Sequences, FiniteSets, TLC

(***************************************************************************)
(* The flow graph handed to the allocator.  blocks is the block order      *)
(* (reverse postorder, blocks[1] the graph entry).  A block is             *)
(*   [kind, preds, succs, phis, defs, body, try_catch, loop, header,       *)
(*    back_edge]                                                           *)
(* where body is the instruction list after the block entry (the last one  *)
(* is the terminator), phis the phis of a join, defs the initial           *)
(* definitions, try_catch the catch block of the try the block is inside   *)
(* (0: none), loop the id of the innermost loop (0: none).  An instruction *)
(*   [op, vreg, out, ins, temps, env, always_calls, callee_safe_call,      *)
(*    can_call, may_throw, call_on_shared_slow_path]                       *)
(* has vreg = -1 when it defines no SSA value; ins is a sequence of        *)
(* [vreg, loc], env the values of its deoptimization environment.          *)
(***************************************************************************)
VARIABLES
  flow_graph_,            \* the input graph and value_representations_
  phase,                  \* where AllocateRegisters is
  cursor,                 \* <<block, instruction>> of BuildLiveRanges
  start_pos, end_pos,     \* block -> lifetime position
  liveness_,              \* [live_in, live_out, kill]: block -> set of vregs
  slots,                  \* Location cells: slot pointer -> Location
  moves,                  \* MoveOperands of all parallel moves, in creation order
  ranges,                 \* arena of LiveRange objects
  live_ranges_,           \* vreg -> range id (0: nullptr)
  cpu_regs_, fpu_regs_,   \* register -> id of its blocking range (0: nullptr)
  unallocated_cpu_, unallocated_fpu_,
  safepoints_,            \* positions of the safepoint instructions
  stack_bitmap,           \* safepoint position -> spill indices marked as objects
  backedge_interference,  \* loop id -> set of vregs (extra_loop_info_)
  register_kind_, registers_, blocked_registers_, unallocated_,
  spill_slots_, quad_spill_slots_, untagged_spill_slots_,
  spilled_, cpu_spill_slot_count_,
  intrinsic_mode_,        \* the constructor's argument
  graph_entry_,           \* [spill_slot_count, frameless] of the graph entry
  history                 \* observations kept for the properties below

vars == <<flow_graph_, phase, cursor, start_pos, end_pos, liveness_, slots, moves,
          ranges, live_ranges_, cpu_regs_, fpu_regs_, unallocated_cpu_,
          unallocated_fpu_, safepoints_, stack_bitmap, backedge_interference,
          register_kind_, registers_, blocked_registers_, unallocated_,
          spill_slots_, quad_spill_slots_, untagged_spill_slots_, spilled_,
          cpu_spill_slot_count_, intrinsic_mode_, graph_entry_, history>>

\* Calls between member functions are dispatched on the name of the callee:
\* Call(f, a) is the member function f applied to the arguments a.
RECURSIVE Call(_, _)

kNoVirtualRegister == -1
kTempVirtualRegister == -2
kIllegalPosition == -1
kMaxPosition == 2147483647

MinPosition(a, b) == IF a < b THEN a ELSE b
Maximum(a, b) == IF a > b THEN a ELSE b
IsInstructionStartPosition(pos) == pos % 2 = 0
IsInstructionEndPosition(pos) == pos % 2 = 1
ToInstructionStart(pos) == pos - (pos % 2)
ToInstructionEnd(pos) == pos - (pos % 2) + 1

(***************************************************************************)
(* Location values.  k is the kind (for an unallocated location: its       *)
(* policy), n the payload (register code, frame slot, constant id).        *)
(***************************************************************************)
Loc(k, n) == [k |-> k, n |-> n]
NoLocation == Loc("Invalid", 0)
AnyLocation == Loc("Any", 0)
PrefersRegister == Loc("PrefersRegister", 0)
RequiresRegister == Loc("RequiresRegister", 0)
RequiresFpuRegister == Loc("RequiresFpuRegister", 0)
WritableRegister == Loc("WritableRegister", 0)
RequiresStack == Loc("RequiresStack", 0)
SameAsFirstInput == Loc("SameAsFirstInput", 0)
RegisterLocation(r) == Loc("Register", r)
FpuRegisterLocation(r) == Loc("FpuRegister", r)
StackSlot(i) == Loc("StackSlot", i)
DoubleStackSlot(i) == Loc("DoubleStackSlot", i)
QuadStackSlot(i) == Loc("QuadStackSlot", i)
ConstantLocation(c) == Loc("Constant", c)

PolicyKinds == {"Any", "PrefersRegister", "RequiresRegister", "RequiresFpuRegister",
                "WritableRegister", "RequiresStack", "SameAsFirstInput"}
IsUnallocated(l) == l.k \in PolicyKinds
IsInvalid(l) == l.k = "Invalid"
IsConstant(l) == l.k = "Constant"
IsRegister(l) == l.k = "Register"
IsFpuRegister(l) == l.k = "FpuRegister"
IsMachineRegister(l) == l.k \in {"Register", "FpuRegister"}
\* A stack slot is relative to FP unless it is the rebased slot of a
\* parameter of a frameless function.
HasStackIndex(l) == l.k \in {"StackSlot", "DoubleStackSlot", "QuadStackSlot", "SpStackSlot"}
ToEntrySpRelative(l) == Loc("SpStackSlot", l.n)
IsFpRelative(l) == l.k \in {"StackSlot", "DoubleStackSlot", "QuadStackSlot"}
IsRegisterBeneficial(l) == l.k # "Any"
MachineRegisterLocation(kind, r) == Loc(kind, r)

(***************************************************************************)
(* LiveRange objects.  intervals is the list first_use_interval_ ..        *)
(* last_use_interval_, uses the list from uses_, safepoints the list from  *)
(* first_safepoint_.  The finger holds indices into the range's own lists  *)
(* (0 is nullptr).                                                         *)
(***************************************************************************)
NullFinger == [first_pending_use_interval |-> 0, first_register_use |-> 0,
               first_register_beneficial_use |-> 0, first_hinted_use |-> 0]

NewLiveRange(vreg, rep) ==
  [vreg |-> vreg, representation |-> rep, assigned_location |-> NoLocation,
   spill_slot |-> NoLocation, uses |-> <<>>, intervals |-> <<>>, safepoints |-> <<>>,
   next_sibling |-> 0, is_loop_phi |-> FALSE, has_uses_which_require_stack |-> FALSE,
   only_any_loops |-> {}, finger |-> NullFinger]

UseInterval(start, end) == [start |-> start, end |-> end]
IntervalContains(iv, pos) == iv.start <= pos /\ pos < iv.end
Start(r) == r.intervals[1].start
End(r) == r.intervals[Len(r.intervals)].end
CanCover(r, pos) == Start(r) <= pos /\ pos < End(r)
RangeContains(r, pos) ==
  /\ CanCover(r, pos)
  /\ \E i \in 1..Len(r.intervals) : IntervalContains(r.intervals[i], pos)

Intersect(a, b) ==
  IF a.start <= b.start
    THEN (IF b.start < a.end THEN b.start ELSE kIllegalPosition)
    ELSE (IF a.start < b.end THEN a.start ELSE kIllegalPosition)

RECURSIVE FirstIntersection(_, _, _, _)
FirstIntersection(as, i, us, j) ==
  IF i > Len(as) \/ j > Len(us) THEN kMaxPosition
  ELSE LET pos == Intersect(as[i], us[j]) IN
       IF pos # kIllegalPosition THEN pos
       ELSE IF as[i].start < us[j].start
              THEN Call("FirstIntersection", <<as, i + 1, us, j>>)
              ELSE Call("FirstIntersection", <<as, i, us, j + 1>>)

\* An AddUseInterval that prepends every interval that starts before the
\* first one, also one that touches it.
PrependUseInterval(r, start, end) ==
  IF r.intervals # <<>> /\ start >= r.intervals[1].start THEN r
  ELSE [r EXCEPT !.intervals = <<UseInterval(start, end)>> \o @]

\* An AddUseInterval without the case of an interval that ends where the
\* first interval ends.
AddUseIntervalFourCases(r, start, end) ==
  IF r.intervals # <<>> THEN
    LET first == r.intervals[1] IN
    IF start > first.start THEN r
    ELSE IF start = first.start THEN
      (IF end <= first.end THEN r ELSE [r EXCEPT !.intervals[1].end = end])
    ELSE IF end = first.start THEN [r EXCEPT !.intervals[1].start = start]
    ELSE [r EXCEPT !.intervals = <<UseInterval(start, end)>> \o @]
  ELSE [r EXCEPT !.intervals = <<UseInterval(start, end)>>]

AddUseInterval(r, start, end) ==
  IF r.intervals # <<>> THEN
    LET first == r.intervals[1] IN
    IF start > first.start THEN r
    ELSE IF start = first.start THEN
      (IF end <= first.end THEN r ELSE [r EXCEPT !.intervals[1].end = end])
    ELSE IF end = first.start \/ end = first.end THEN
      [r EXCEPT !.intervals[1].start = start]
    ELSE [r EXCEPT !.intervals = <<UseInterval(start, end)>> \o @]
  ELSE [r EXCEPT !.intervals = <<UseInterval(start, end)>>]

\* DefineAt that gives a definition without a use the interval [pos, pos + 2).
DefineAtWide(r, pos) ==
  IF r.intervals = <<>>
    THEN [r EXCEPT !.intervals = <<UseInterval(pos, pos + 2)>>]
    ELSE [r EXCEPT !.intervals[1].start = pos]

DefineAt(r, pos) ==
  IF r.intervals = <<>>
    THEN [r EXCEPT !.intervals = <<UseInterval(pos, pos + 1)>>]
    ELSE [r EXCEPT !.intervals[1].start = pos]

\* A Location*: the cell j of kind t (in, out, temp, env) of instruction i of
\* block b; the src or dest cell of move b; the assigned_location_ of range b.
SlotPtr(t, b, i, j) == [t |-> t, b |-> b, i |-> i, j |-> j]
NullSlot == SlotPtr("null", 0, 0, 0)
AssignedLocationSlot(rid) == SlotPtr("range", rid, 0, 0)
SrcSlot(m) == SlotPtr("src", m, 0, 0)
DestSlot(m) == SlotPtr("dest", m, 0, 0)

UsePosition(pos, slot) == [pos |-> pos, location_slot |-> slot, hint |-> NullSlot]

InsertAt(s, i, x) == SubSeq(s, 1, i - 1) \o <<x>> \o SubSeq(s, i, Len(s))

RECURSIVE InsertAfter(_, _, _)
InsertAfter(uses, k, pos) ==
  IF k < Len(uses) /\ uses[k + 1].pos < pos THEN InsertAfter(uses, k + 1, pos) ELSE k

RECURSIVE SameUse(_, _, _, _)
SameUse(uses, k, pos, slot) ==
  IF k > Len(uses) \/ uses[k].pos # pos THEN 0
  ELSE IF uses[k].location_slot = slot THEN k
  ELSE SameUse(uses, k + 1, pos, slot)

\* AddUse: the index of the use position that AddUse returns, then the list.
AddUseIndex(r, pos, slot) ==
  LET uses == r.uses IN
  IF uses = <<>> THEN 1
  ELSE IF uses[1].pos = pos /\ uses[1].location_slot = slot THEN 1
  ELSE IF uses[1].pos < pos THEN
    LET after == InsertAfter(uses, 1, pos)
        same == SameUse(uses, after + 1, pos, slot)
    IN IF same # 0 THEN same ELSE after + 1
  ELSE 1

AddUseIsNew(r, pos, slot) ==
  LET k == AddUseIndex(r, pos, slot) IN
  ~(k <= Len(r.uses) /\ r.uses[k].pos = pos /\ r.uses[k].location_slot = slot)

\* An AddUse that puts every new use position at the head of the list.
PrependUse(r, pos, slot) ==
  IF AddUseIsNew(r, pos, slot)
    THEN [r EXCEPT !.uses = <<UsePosition(pos, slot)>> \o @]
    ELSE r

AddUse(r, pos, slot) ==
  IF AddUseIsNew(r, pos, slot)
    THEN [r EXCEPT !.uses = InsertAt(@, AddUseIndex(r, pos, slot), UsePosition(pos, slot))]
    ELSE r

\* AddHintedUse that drops the hint.
AddUnhintedUse(r, pos, slot, hint) == Call("AddUse", <<r, pos, slot>>)

AddHintedUse(r, pos, slot, hint) ==
  LET k == AddUseIndex(r, pos, slot) IN
  [Call("AddUse", <<r, pos, slot>>) EXCEPT !.uses[k].hint = hint]

\* blocks_registers: locs->always_calls() && !locs->callee_safe_call().
AddSafepoint(r, pos, blocks_registers) ==
  IF IsConstant(r.spill_slot) /\ blocks_registers
    THEN r
    ELSE [r EXCEPT !.safepoints = Append(@, ToInstructionEnd(pos))]

\* The allocator object as one value, so that the member functions below can
\* be written as operators from allocator state to allocator state.
Self ==
  [flow_graph_ |-> flow_graph_, phase |-> phase, cursor |-> cursor,
   start_pos |-> start_pos, end_pos |-> end_pos, liveness_ |-> liveness_,
   slots |-> slots, moves |-> moves, ranges |-> ranges,
   live_ranges_ |-> live_ranges_, cpu_regs_ |-> cpu_regs_, fpu_regs_ |-> fpu_regs_,
   unallocated_cpu_ |-> unallocated_cpu_, unallocated_fpu_ |-> unallocated_fpu_,
   safepoints_ |-> safepoints_, stack_bitmap |-> stack_bitmap,
   backedge_interference |-> backedge_interference,
   register_kind_ |-> register_kind_, registers_ |-> registers_,
   blocked_registers_ |-> blocked_registers_, unallocated_ |-> unallocated_,
   spill_slots_ |-> spill_slots_, quad_spill_slots_ |-> quad_spill_slots_,
   untagged_spill_slots_ |-> untagged_spill_slots_, spilled_ |-> spilled_,
   cpu_spill_slot_count_ |-> cpu_spill_slot_count_, graph_entry_ |-> graph_entry_,
   history |-> history]

Commit(A0) ==
  \E A \in {A0} :
    /\ flow_graph_' = A.flow_graph_ /\ phase' = A.phase /\ cursor' = A.cursor
    /\ start_pos' = A.start_pos /\ end_pos' = A.end_pos /\ liveness_' = A.liveness_
    /\ slots' = A.slots /\ moves' = A.moves /\ ranges' = A.ranges
    /\ live_ranges_' = A.live_ranges_ /\ cpu_regs_' = A.cpu_regs_
    /\ fpu_regs_' = A.fpu_regs_ /\ unallocated_cpu_' = A.unallocated_cpu_
    /\ unallocated_fpu_' = A.unallocated_fpu_ /\ safepoints_' = A.safepoints_
    /\ stack_bitmap' = A.stack_bitmap
    /\ backedge_interference' = A.backedge_interference
    /\ register_kind_' = A.register_kind_ /\ registers_' = A.registers_
    /\ blocked_registers_' = A.blocked_registers_ /\ unallocated_' = A.unallocated_
    /\ spill_slots_' = A.spill_slots_ /\ quad_spill_slots_' = A.quad_spill_slots_
    /\ untagged_spill_slots_' = A.untagged_spill_slots_ /\ spilled_' = A.spilled_
    /\ cpu_spill_slot_count_' = A.cpu_spill_slot_count_ /\ history' = A.history
    /\ graph_entry_' = A.graph_entry_ /\ intrinsic_mode_' = intrinsic_mode_

Blocks == flow_graph_.blocks
BlockCount == Len(Blocks)
BlockIds == 1..BlockCount
Body(b) == Blocks[b].body
InstrAt(b, i) == Body(b)[i]
LastInstruction(b) == IF Body(b) = <<>> THEN [op |-> "BlockEntry"] ELSE Body(b)[Len(Body(b))]
IsJoinEntry(b) == Blocks[b].kind = "JoinEntry"
IsGraphEntry(b) == Blocks[b].kind = "GraphEntry"
IsFunctionEntry(b) == Blocks[b].kind = "FunctionEntry"
IsCatchBlockEntryBlock(b) == Blocks[b].kind = "CatchBlockEntry"
Representation(vreg) == flow_graph_.value_representations[vreg]
VregIds == 1..Len(flow_graph_.value_representations)
IndexOfPredecessor(join, pred) ==
  CHOOSE k \in 1..Len(Blocks[join].preds) : Blocks[join].preds[k] = pred
SeqToSet(s) == {s[k] : k \in 1..Len(s)}

Deref(A, ptr) ==
  IF ptr.t = "range" THEN A.ranges[ptr.b].assigned_location ELSE A.slots[ptr]
Store(A, ptr, loc) ==
  IF ptr.t = "range" THEN [A EXCEPT !.ranges[ptr.b].assigned_location = loc]
  ELSE [A EXCEPT !.slots = [q \in (DOMAIN @) \cup {ptr} |-> IF q = ptr THEN loc ELSE @[q]]]

\* history.writes: for every location slot, who wrote a location into it
\* through a use position, in order.
Written(A, ptr, by) ==
  [A EXCEPT !.history.writes =
     [q \in (DOMAIN @) \cup {ptr} |->
        (IF q \in DOMAIN @ THEN @[q] ELSE <<>>) \o (IF q = ptr THEN <<by>> ELSE <<>>)]]

(***************************************************************************)
(* SSALivenessAnalysis.  ComputeInitialSets gives kill and the initial     *)
(* live-in of every block; the fixed point over them is the external       *)
(* solver: live_out(b) is the union of live_in over the successors of b,   *)
(* live_in(b) = initial(b) \cup (live_out(b) \ kill(b)).                   *)
(***************************************************************************)
InstrUses(instr) ==
  {instr.ins[j].vreg : j \in {k \in 1..Len(instr.ins) : ~IsConstant(instr.ins[k].loc)}}
    \cup SeqToSet(instr.env)

RECURSIVE UpwardExposed(_, _, _)
UpwardExposed(body, i, live) ==
  IF i = 0 THEN live
  ELSE UpwardExposed(body, i - 1, (live \ {body[i].vreg}) \cup InstrUses(body[i]))

Kill(b) ==
  {Body(b)[i].vreg : i \in {k \in 1..Len(Body(b)) : Body(b)[k].vreg >= 0}}
    \cup {Blocks[b].phis[k].vreg : k \in 1..Len(Blocks[b].phis)}
    \cup {Blocks[b].defs[k].vreg : k \in 1..Len(Blocks[b].defs)}

PhiInputsFrom(b) ==
  UNION {{Blocks[s].phis[k].inputs[IndexOfPredecessor(s, b)] :
            k \in 1..Len(Blocks[s].phis)} :
         s \in {t \in SeqToSet(Blocks[b].succs) : IsJoinEntry(t)}}

ComputeInitialSets ==
  [kill |-> [b \in BlockIds |-> Kill(b)],
   live_in |-> [b \in BlockIds |->
      (UpwardExposed(Body(b), Len(Body(b)), {}) \cup (PhiInputsFrom(b) \ Kill(b)))
        \ ({Blocks[b].phis[k].vreg : k \in 1..Len(Blocks[b].phis)}
           \cup {Blocks[b].defs[k].vreg : k \in 1..Len(Blocks[b].defs)})]]

RECURSIVE Analyze(_, _)
Analyze(init, live) ==
  LET out == [b \in BlockIds |-> UNION {live.live_in[s] : s \in SeqToSet(Blocks[b].succs)}]
      in == [b \in BlockIds |-> init.live_in[b] \cup (out[b] \ init.kill[b])]
      next == [live_in |-> in, live_out |-> out, kill |-> init.kill]
  IN IF next = live THEN live ELSE Analyze(init, next)

\* InitializeLocationSummary: the Location cells of every instruction.
InstructionSlots ==
  LET ptrs == UNION {UNION {
        {SlotPtr("out", b, i, 0)}
          \cup {SlotPtr("in", b, i, j) : j \in 1..Len(InstrAt(b, i).ins)}
          \cup {SlotPtr("temp", b, i, j) : j \in 1..Len(InstrAt(b, i).temps)}
        : i \in 1..Len(Body(b))} : b \in BlockIds}
  IN [q \in ptrs |->
        LET instr == InstrAt(q.b, q.i) IN
        CASE q.t = "out" -> instr.out
          [] q.t = "in" -> instr.ins[q.j].loc
          [] OTHER -> instr.temps[q.j]]

\* NumberInstructions that gives the block entry no position of its own.
EndWithoutEntry(b, pos) == pos + 2 * Len(Body(b))
\* The position after the block whose entry is at pos: the entry and every
\* instruction after it take two positions (the bodies hold no parallel move).
EndOfBlock(b, pos) == pos + 2 + 2 * Len(Body(b))


(***************************************************************************)
(* NumberInstructions: two positions for every block entry and every       *)
(* instruction, then an empty move for every phi in the parallel move of   *)
(* the goto of every predecessor of a join.                                *)
(***************************************************************************)
RECURSIVE NumberBlocks(_, _, _)
NumberBlocks(b, pos, acc) ==
  IF b > BlockCount THEN acc
  ELSE LET end == EndOfBlock(b, pos) IN
       NumberBlocks(b + 1, end,
                    [start |-> [acc.start EXCEPT ![b] = pos],
                     end |-> [acc.end EXCEPT ![b] = end]])

ParallelMove(kind, n) == [kind |-> kind, n |-> n]
MoveOperands(pm) == [pm |-> pm]

PhiMovePlaceholders ==
  LET PredMoves(join) ==
        [k \in 1..(Len(Blocks[join].preds) * Len(Blocks[join].phis)) |->
           MoveOperands(ParallelMove("goto",
              Blocks[join].preds[((k - 1) \div Len(Blocks[join].phis)) + 1]))]
      RECURSIVE All(_)
      All(b) == IF b > BlockCount THEN <<>>
                ELSE (IF IsJoinEntry(b) THEN PredMoves(b) ELSE <<>>) \o All(b + 1)
  IN All(1)

NumberInstructions(A) ==
  LET zero == [b \in BlockIds |-> 0]
      numbered == NumberBlocks(1, 0, [start |-> zero, end |-> zero])
      placeholders == PhiMovePlaceholders
      cells == [q \in UNION {{SrcSlot(m), DestSlot(m)} : m \in 1..Len(placeholders)}
                  |-> NoLocation]
  IN [A EXCEPT !.start_pos = numbered.start, !.end_pos = numbered.end,
               !.moves = placeholders, !.slots = A.slots @@ cells]

\* The instruction a lifetime position belongs to: <<block, index>>, index 0
\* being the block entry.
BlockEntryAt(A, pos) ==
  CHOOSE b \in BlockIds : A.start_pos[b] <= pos /\ pos < A.end_pos[b]
InstructionAt(A, pos) ==
  LET b == BlockEntryAt(A, pos) IN <<b, (pos - A.start_pos[b]) \div 2>>
IsBlockEntry(A, pos) ==
  IsInstructionStartPosition(pos) /\ InstructionAt(A, pos)[2] = 0
IsCatchBlockEntry(A, pos) ==
  IsBlockEntry(A, pos) /\ IsCatchBlockEntryBlock(BlockEntryAt(A, pos))
GetLifetimePosition(A, b, i) == A.start_pos[b] + 2 * i
\* The k-th MoveOperands of a parallel move, as an index into moves.
MoveOperandsAt(A, pm, k) ==
  LET ids == {m \in 1..Len(A.moves) : A.moves[m].pm = pm}
  IN CHOOSE m \in ids : Cardinality({n \in ids : n < m}) = k - 1

(***************************************************************************)
(* Helpers of live range construction.                                     *)
(***************************************************************************)
RECURSIVE FoldSeq(_, _, _)
FoldSeq(Op(_, _), acc, s) ==
  IF s = <<>> THEN acc ELSE FoldSeq(Op, Op(acc, Head(s)), Tail(s))

RECURSIVE Ascending(_)
Ascending(S) ==
  IF S = {} THEN <<>>
  ELSE LET m == CHOOSE x \in S : \A y \in S : x <= y IN <<m>> \o Ascending(S \ {m})

\* Registers: the allocatable ones and one that the allocator may not use
\* (kDartAvailableCpuRegs excludes it; FpuTMP for the FPU file).
NumAllocatableCpu == 2
NumAllocatableFpu == 2
kNumberOfCpuRegisters == NumAllocatableCpu + 1
kNumberOfFpuRegisters == NumAllocatableFpu + 1
FpuTMP == kNumberOfFpuRegisters - 1
\* Intrinsic mode also blocks ARGS_DESC_REG; of the registers it blocks, the
\* register file here has this one only (as on IA32, where CODE_REG is not
\* blocked).
ARGS_DESC_REG == NumAllocatableCpu - 1
blocked_cpu_registers_ ==
  [r \in 0..(kNumberOfCpuRegisters - 1) |->
     r = kNumberOfCpuRegisters - 1 \/ (intrinsic_mode_ /\ r = ARGS_DESC_REG)]
blocked_fpu_registers_ == [r \in 0..(kNumberOfFpuRegisters - 1) |-> r = FpuTMP]
kRegisterAllocationBias == 0

IsConstantDefinition(v) ==
  \E k \in 1..Len(Blocks[1].defs) :
     Blocks[1].defs[k].vreg = v /\ Blocks[1].defs[k].kind = "Constant"

GetLiveRange(A, vreg) ==
  IF A.live_ranges_[vreg] # 0 THEN A
  ELSE [A EXCEPT !.ranges = Append(@, NewLiveRange(vreg, Representation(vreg))),
                 !.live_ranges_[vreg] = Len(A.ranges) + 1]

\* Applies a LiveRange member function to the range of vreg.
OnLiveRange(A, vreg, F(_)) ==
  LET B == GetLiveRange(A, vreg) IN
  [B EXCEPT !.ranges[B.live_ranges_[vreg]] = F(@)]

MakeLiveRangeForTemporary(A) ==
  [A EXCEPT !.ranges = Append(@, NewLiveRange(kTempVirtualRegister, "kNoRepresentation"))]

BlockRegisterLocation(A, loc, from, to) ==
  LET cpu == IsRegister(loc)
      blocked == IF cpu THEN blocked_cpu_registers_ ELSE blocked_fpu_registers_
      blocking == IF cpu THEN A.cpu_regs_ ELSE A.fpu_regs_
  IN IF blocked[loc.n] THEN A
     ELSE LET B == IF blocking[loc.n] # 0 THEN A
                   ELSE LET rid == Len(A.ranges) + 1
                            range == [NewLiveRange(kNoVirtualRegister, "kNoRepresentation")
                                        EXCEPT !.assigned_location = loc]
                        IN IF cpu
                             THEN [A EXCEPT !.ranges = Append(@, range), !.cpu_regs_[loc.n] = rid]
                             ELSE [A EXCEPT !.ranges = Append(@, range), !.fpu_regs_[loc.n] = rid]
              rid == IF cpu THEN B.cpu_regs_[loc.n] ELSE B.fpu_regs_[loc.n]
          IN [B EXCEPT !.ranges[rid] = Call("AddUseInterval", <<@, from, to>>)]

\* BlockLocation that leaves the register free.
LeaveLocationFree(A, loc, from, to) == A

BlockLocation(A, loc, from, to) == BlockRegisterLocation(A, loc, from, to)

\* A call that leaves the registers unblocked over [pos, pos + 1).
BlockNoCpuRegisters(A, from, to) == A

BlockCpuRegisters(A, from, to) ==
  FoldSeq(LAMBDA B, r : Call("BlockLocation", <<B, RegisterLocation(r), from, to>>), A,
          [k \in 1..kNumberOfCpuRegisters |-> k - 1])

BlockFpuRegisters(A, from, to) ==
  FoldSeq(LAMBDA B, r : Call("BlockLocation", <<B, FpuRegisterLocation(r), from, to>>), A,
          [k \in 1..kNumberOfFpuRegisters |-> k - 1])

\* AddMoveAt: the new MoveOperands is the last element of moves.  The
\* parallel move is the one with lifetime position pos; for a function entry
\* it is placed after the entry.
AddMoveAt(A, pos, to, from) ==
  LET m == Len(A.moves) + 1 IN
  [A EXCEPT !.moves = Append(@, MoveOperands(ParallelMove("pos", pos))),
            !.slots = @ @@ (DestSlot(m) :> to) @@ (SrcSlot(m) :> from)]

Initialize(r) ==
  [r EXCEPT !.finger =
     [first_pending_use_interval |-> IF r.intervals = <<>> THEN 0 ELSE 1,
      first_register_use |-> IF r.uses = <<>> THEN 0 ELSE 1,
      first_register_beneficial_use |-> IF r.uses = <<>> THEN 0 ELSE 1,
      first_hinted_use |-> IF r.uses = <<>> THEN 0 ELSE 1]]

\* ShouldBeAllocatedBefore with a strict comparison.
AllocatedStrictlyBefore(a, b) == Start(a) < Start(b)

\* ShouldBeAllocatedBefore with the order reversed.
AllocatedAfter(a, b) == Start(b) <= Start(a)

ShouldBeAllocatedBefore(a, b) == Start(a) <= Start(b)

RECURSIVE SortedInsertIndex(_, _, _, _)
SortedInsertIndex(rs, list, rid, i) ==
  IF i = 0 THEN 1
  ELSE IF ShouldBeAllocatedBefore(rs[rid], rs[list[i]]) THEN i + 1
  ELSE SortedInsertIndex(rs, list, rid, i - 1)

\* The list after AddToSortedListOfRanges; the finger is initialized by the
\* callers below, which own the arena.
AddToSortedListOfRanges(rs, list, rid) ==
  InsertAt(list, SortedInsertIndex(rs, list, rid, Len(list)), rid)

AddToUnallocated(A, rid) ==
  LET B == [A EXCEPT !.ranges[rid] = Initialize(@)] IN
  [B EXCEPT !.unallocated_ = AddToSortedListOfRanges(B.ranges, @, rid),
            !.history.queued = @ \cup {rid},
            !.history.inserted = Append(@, rid)]

CompleteRange(A, rid, kind) ==
  LET B == [A EXCEPT !.ranges[rid] = Initialize(@)] IN
  IF kind = "Register"
    THEN [B EXCEPT !.unallocated_cpu_ = AddToSortedListOfRanges(B.ranges, @, rid),
                   !.history.inserted = Append(@, rid)]
    ELSE [B EXCEPT !.unallocated_fpu_ = AddToSortedListOfRanges(B.ranges, @, rid),
                   !.history.inserted = Append(@, rid)]

RegisterKindFromPolicy(loc) ==
  IF loc.k = "RequiresFpuRegister" THEN "FpuRegister" ELSE "Register"

RegisterKindForResult(vreg) ==
  IF Representation(vreg) \in {"kUnboxedDouble", "kUnboxedFloat", "kUnboxedFloat32x4",
                               "kUnboxedInt32x4", "kUnboxedFloat64x2"}
    THEN "FpuRegister" ELSE "Register"

(***************************************************************************)
(* BuildLiveRanges and the functions it calls.                             *)
(***************************************************************************)
\* locs of the safepoint instruction at pos: always_calls && !callee_safe_call.
\* A catch block entry is a safepoint whose summary is a call.
SafepointBlocksRegisters(A, pos) ==
  LET at == InstructionAt(A, pos) IN
  IF at[2] = 0 THEN TRUE
  ELSE InstrAt(at[1], at[2]).always_calls /\ ~InstrAt(at[1], at[2]).callee_safe_call

RECURSIVE AssignSafepointsFrom(_, _, _, _)
AssignSafepointsFrom(A, defn_pos, r, i) ==
  IF i = 0 THEN r
  ELSE LET pos == A.safepoints_[i] IN
       IF pos = defn_pos THEN Call("AssignSafepointsFrom", <<A, defn_pos, r, i - 1>>)
       ELSE IF End(r) <= pos THEN r
       ELSE Call("AssignSafepointsFrom", <<A, defn_pos,
              IF RangeContains(r, pos)
                THEN AddSafepoint(r, pos, SafepointBlocksRegisters(A, pos))
                ELSE r,
              i - 1>>)

\* defn_pos is the position of the defining instruction (-1 for a phi or an
\* initial definition, which are no safepoints).
AssignSafepoints(A, defn_pos, rid) ==
  [A EXCEPT !.ranges[rid] = Call("AssignSafepointsFrom", <<A, defn_pos, @, Len(A.safepoints_)>>)]

ProcessEnvironmentUses(A, b, i) ==
  LET pos == GetLifetimePosition(A, b, i)
      use_pos == pos + 1
      One(B, j) ==
        LET v == InstrAt(b, i).env[j]
            slot == SlotPtr("env", b, i, j)
        IN IF IsConstantDefinition(v) THEN Store(B, slot, ConstantLocation(v))
           ELSE OnLiveRange(Store(B, slot, AnyLocation), v,
                  LAMBDA r : Call("AddUse", <<Call("AddUseInterval", <<r, B.start_pos[b], use_pos>>), use_pos, slot>>))
  IN FoldSeq(One, A, [j \in 1..Len(InstrAt(b, i).env) |-> j])

ProcessOneInput(A0, b, pos, in_ref, vreg) ==
  LET block_start == A0.start_pos[b]
      Input(A, loc) ==
        IF IsMachineRegister(loc) THEN
          LET B == Call("AddMoveAt", <<A, pos - 1, loc, AnyLocation>>)
              move == Len(B.moves)
              C == Call("BlockLocation", <<B, loc, pos - 1, pos + 1>>)
          IN OnLiveRange(C, vreg, LAMBDA r :
               Call("AddHintedUse", <<Call("AddUseInterval", <<r, block_start, pos - 1>>), pos - 1, SrcSlot(move), in_ref>>))
        ELSE IF IsUnallocated(loc) THEN
          IF loc.k = "WritableRegister" THEN
            LET B == Call("AddMoveAt", <<A, pos, RequiresRegister, PrefersRegister>>)
                move == Len(B.moves)
                C == OnLiveRange(B, vreg, LAMBDA r :
                       Call("AddUse", <<Call("AddUseInterval", <<r, block_start, pos>>), pos, SrcSlot(move)>>))
                D == Call("MakeLiveRangeForTemporary", <<C>>)
                temp == Len(D.ranges)
                E == [D EXCEPT !.ranges[temp] =
                        Call("AddUse", <<Call("AddHintedUse", <<Call("AddUseInterval", <<@, pos, pos + 1>>), pos, in_ref, SrcSlot(move)>>),
                               pos, DestSlot(move)>>)]
                F == Store(E, in_ref, RequiresRegister)
            IN Call("CompleteRange", <<F, temp, RegisterKindFromPolicy(RequiresRegister)>>)
          ELSE
            LET B == IF loc.k = "RequiresStack"
                       THEN OnLiveRange(A, vreg, LAMBDA r : [r EXCEPT !.has_uses_which_require_stack = TRUE])
                       ELSE A
            IN OnLiveRange(B, vreg, LAMBDA r :
                 Call("AddUse", <<Call("AddUseInterval", <<r, block_start, pos + 1>>), pos + 1, in_ref>>))
        ELSE A
  IN Input(Call("GetLiveRange", <<A0, vreg>>), Deref(A0, in_ref))

\* No use is found right after the fixed output.
NoLeadingUse(uses, k, pos) == 0

\* The uses that the fixed-output case of ProcessOneOutput allocates and
\* drops: the uses at pos + 1 at the head of the list.
RECURSIVE LeadingUsesAt(_, _, _)
LeadingUsesAt(uses, k, pos) ==
  IF k <= Len(uses) /\ uses[k].pos = pos THEN LeadingUsesAt(uses, k + 1, pos) ELSE k - 1

\* The fixed-output case of ProcessOneOutput that keeps the uses it allocated.
KeepLeadingUses(uses, n) == uses
\* range->set_first_use(use->next()) for each of the n uses allocated.
DropLeadingUses(uses, n) == SubSeq(uses, n + 1, Len(uses))

ProcessOneOutput(A0, b, i, pos, out, vreg, output_same_as_first_input) ==
  LET kind == IF vreg >= 0 THEN RegisterKindForResult(vreg) ELSE "Register"
      loc == Deref(A0, out)
      in_ref == SlotPtr("in", b, i, 1)
      input_vreg == InstrAt(b, i).ins[1].vreg
      Done(B, rid) == Call("CompleteRange", <<Call("AssignSafepoints", <<B, pos, rid>>), rid, kind>>)
      \* The output is a fixed register: the uses at pos + 1 are allocated to
      \* it and the range is shortened.
      Fixed(B, rid, range, n) ==
        LET C == FoldSeq(LAMBDA X, k : Written(Store(X, range.uses[k].location_slot, loc),
                                               range.uses[k].location_slot, "ProcessOneOutput"),
                         B, [k \in 1..n |-> k])
            Shortened(D) ==
              IF Start(D.ranges[rid]) = End(D.ranges[rid]) THEN D
              ELSE LET E == Call("AddMoveAt", <<D, pos + 1, AnyLocation, loc>>)
                   IN Done([E EXCEPT !.ranges[rid] =
                              Call("AddHintedUse", <<@, pos + 1, DestSlot(Len(E.moves)), out>>)], rid)
        IN Shortened([C EXCEPT !.ranges[rid] =
                        DefineAt([@ EXCEPT !.uses = DropLeadingUses(@, n)], pos + 1)])
      Interfere(E, range) ==
        IF E.cursor.interference # 0 /\ range.vreg >= 0
           /\ range.vreg \in E.backedge_interference[E.cursor.interference]
          THEN [E EXCEPT !.backedge_interference[E.cursor.interference] = @ \cup {input_vreg}]
          ELSE E
      SameAsFirst(C, rid, range) ==
        LET move == Len(C.moves)
            D == OnLiveRange(C, input_vreg, LAMBDA r :
                   Call("AddUse", <<Call("AddUseInterval", <<r, C.start_pos[b], pos>>), pos, SrcSlot(move)>>))
            E == [D EXCEPT !.ranges[rid] =
                    Call("AddUse", <<Call("AddUse", <<Call("AddHintedUse", <<DefineAt(@, pos), pos, out, SrcSlot(move)>>),
                                  pos, DestSlot(move)>>), pos, in_ref>>)]
        IN Done(Interfere(E, range), rid)
      Output(A, rid, range) ==
        IF IsMachineRegister(loc) THEN
          IF range.vreg = kTempVirtualRegister \/ range.uses = <<>>
            THEN Call("BlockLocation", <<A, loc, pos, pos + 1>>)
            ELSE Fixed(Call("BlockLocation", <<A, loc, pos, pos + 1>>), rid, range,
                       LeadingUsesAt(range.uses, 1, pos + 1))
        ELSE IF output_same_as_first_input THEN
          SameAsFirst(Call("AddMoveAt", <<Store(A, out, Deref(A, in_ref)), pos, RequiresRegister,
                             IF Blocks[b].loop # 0 THEN PrefersRegister ELSE AnyLocation>>),
                      rid, range)
        ELSE Done([A EXCEPT !.ranges[rid] = Call("AddUse", <<DefineAt(@, pos), pos, out>>)], rid)
      WithRange(A, rid) == Output(A, rid, A.ranges[rid])
      Found(A) == WithRange(A, IF vreg >= 0 THEN A.live_ranges_[vreg] ELSE Len(A.ranges))
  IN Found(IF vreg >= 0 THEN Call("GetLiveRange", <<A0, vreg>>) ELSE Call("MakeLiveRangeForTemporary", <<A0>>))

HasOnlyUnconstrainedUses(A, r) ==
  \A k \in 1..Len(r.uses) : Deref(A, r.uses[k].location_slot) = AnyLocation

ProcessOneInstruction(A0, b, i) ==
  LET instr == InstrAt(b, i)
      pos == GetLifetimePosition(A0, b, i)
      out == SlotPtr("out", b, i, 0)
      Output(F, output_same_as_first_input) ==
        IF IsInvalid(F.slots[out]) THEN F
        ELSE Call("ProcessOneOutput", <<F, b, i, pos, out, instr.vreg, output_same_as_first_input>>)
      Safepoint(E, output_same_as_first_input) ==
        Output(IF instr.can_call THEN [E EXCEPT !.safepoints_ = Append(@, pos)] ELSE E,
               output_same_as_first_input)
      Clobber(D, output_same_as_first_input) ==
        Safepoint(IF instr.always_calls /\ ~instr.callee_safe_call
                    THEN BlockFpuRegisters(BlockCpuRegisters(D, pos, pos + 1), pos, pos + 1)
                    ELSE D,
                  output_same_as_first_input)
      Temps(C, output_same_as_first_input) ==
        Clobber(FoldSeq(LAMBDA X, j :
                          IF IsMachineRegister(instr.temps[j])
                            THEN Call("BlockLocation", <<X, instr.temps[j], pos, pos + 1>>)
                            ELSE LET Y == Call("MakeLiveRangeForTemporary", <<X>>)
                                     temp == Len(Y.ranges)
                                 IN Call("CompleteRange", <<
                                      [Y EXCEPT !.ranges[temp] =
                                         Call("AddUse", <<Call("AddUseInterval", <<@, pos, pos + 1>>), pos,
                                                SlotPtr("temp", b, i, j)>>)],
                                      temp, RegisterKindFromPolicy(instr.temps[j])>>),
                        C, [k \in 1..Len(instr.temps) |-> k]),
                output_same_as_first_input)
      Inputs(A, output_same_as_first_input) ==
        Temps(FoldSeq(LAMBDA X, j :
                        Call("ProcessOneInput", <<X, b, pos, SlotPtr("in", b, i, j), instr.ins[j].vreg>>),
                      ProcessEnvironmentUses(A, b, i),
                      [k \in 1..(Len(instr.ins) - (IF output_same_as_first_input THEN 1 ELSE 0))
                         |-> k + (IF output_same_as_first_input THEN 1 ELSE 0)]),
              output_same_as_first_input)
      Normalized(A) == Inputs(A, A.slots[out].k = "SameAsFirstInput")
      \* Normalize same-as-first-input output if the input is a fixed register.
      Instruction(A) ==
        Normalized(IF A.slots[out].k = "SameAsFirstInput"
                      /\ IsMachineRegister(A.slots[SlotPtr("in", b, i, 1)])
                     THEN Store(A, out, A.slots[SlotPtr("in", b, i, 1)]) ELSE A)
      \* The definition of a constant: dropped when it has no uses, converted
      \* to the constant when all its uses are unconstrained.
      ConstantDefinition(B, rid) ==
        IF B.ranges[rid].uses = <<>> THEN Store(B, out, NoLocation)
        ELSE IF HasOnlyUnconstrainedUses(B, B.ranges[rid])
          THEN Store(Call("ConvertAllUses", <<
                       [B EXCEPT !.ranges[rid] =
                          Initialize([@ EXCEPT !.assigned_location = ConstantLocation(instr.vreg),
                                               !.spill_slot = ConstantLocation(instr.vreg)])],
                       rid>>),
                     out, NoLocation)
          ELSE Instruction(B)
      WithConstant(B) == ConstantDefinition(B, B.live_ranges_[instr.vreg])
  IN IF instr.op = "Constant"
       THEN IF instr.vreg = -1 THEN Store(A0, out, NoLocation)
            ELSE WithConstant(Call("GetLiveRange", <<A0, instr.vreg>>))
       ELSE Instruction(A0)

ConnectOutgoingPhiMoves(A, b) ==
  LET join == Blocks[b].succs[1]
      pos == GetLifetimePosition(A, b, Len(Body(b)))
      pred_index == IndexOfPredecessor(join, b)
      cis == A.cursor.interference
      One(X, k) ==
        LET phi == Blocks[join].phis[k]
            vreg == phi.inputs[pred_index]
            move == MoveOperandsAt(X, ParallelMove("goto", b), k)
        IN IF IsConstantDefinition(vreg) THEN Store(X, SrcSlot(move), ConstantLocation(vreg))
           ELSE LET Y == Call("GetLiveRange", <<Call("GetLiveRange", <<X, vreg>>), phi.vreg>>)
                    Z == IF cis # 0 THEN [Y EXCEPT !.backedge_interference[cis] = @ \cup {vreg}]
                         ELSE Y
                    W == OnLiveRange(Z, vreg, LAMBDA r :
                           Call("AddHintedUse", <<Call("AddUseInterval", <<r, Z.start_pos[b], pos>>), pos, SrcSlot(move),
                                        AssignedLocationSlot(Z.live_ranges_[phi.vreg])>>))
                IN Store(W, SrcSlot(move), PrefersRegister)
  IN IF LastInstruction(b).op = "Goto" /\ IsJoinEntry(join)
       THEN FoldSeq(One, A, [k \in 1..Len(Blocks[join].phis) |-> k])
       ELSE A

ConnectIncomingPhiMoves(A, join) ==
  LET pos == A.start_pos[join]
      One(X, k) ==
        LET vreg == Blocks[join].phis[k].vreg
            Y == OnLiveRange(X, vreg, LAMBDA r :
                   [DefineAt(r, pos) EXCEPT !.is_loop_phi = @ \/ Blocks[join].header])
            rid == Y.live_ranges_[vreg]
            Z == FoldSeq(LAMBDA W, pred_idx :
                   LET move == MoveOperandsAt(W, ParallelMove("goto", Blocks[join].preds[pred_idx]), k)
                   IN [Store(W, DestSlot(move), PrefersRegister)
                         EXCEPT !.ranges[rid] = Call("AddUse", <<@, pos, DestSlot(move)>>)],
                   Y, [p \in 1..Len(Blocks[join].preds) |-> p])
        IN Call("CompleteRange", <<Call("AssignSafepoints", <<Z, -1, rid>>), rid, RegisterKindForResult(vreg)>>)
  IN FoldSeq(One, A, [k \in 1..Len(Blocks[join].phis) |-> k])

\* extra_loop_info_[loop]: start of the header and the largest end of a back edge.
LoopHeader(loop) == flow_graph_.loops[loop].header
ExtraLoopInfo(A, loop) ==
  LET ends == {A.end_pos[b] : b \in {c \in BlockIds : Blocks[c].back_edge /\ Blocks[c].loop = loop}}
      start == A.start_pos[LoopHeader(loop)]
  IN [start |-> start,
      end |-> IF ends = {} THEN start
              ELSE Maximum(start, CHOOSE e \in ends : \A f \in ends : f <= e)]

HasOnlyUnconstrainedUsesInLoop(A, r, boundary) ==
  \A k \in 1..Len(r.uses) :
     (\A n \in 1..k : r.uses[n].pos < boundary) => Deref(A, r.uses[k].location_slot) = AnyLocation

\* The first part of the loop body of BuildLiveRanges: intervals for the
\* values live out of the block, the interference set of a back edge, the
\* outgoing phi moves.
BeginBlock(A, b) ==
  LET B == FoldSeq(LAMBDA X, v : OnLiveRange(X, v, LAMBDA r :
                      Call("AddUseInterval", <<r, X.start_pos[b], X.end_pos[b]>>)),
                   A, Ascending(A.liveness_.live_out[b]))
      loop == Blocks[b].loop
      C == IF loop # 0 /\ Blocks[b].back_edge
             THEN [B EXCEPT !.cursor.interference = loop,
                            !.backedge_interference =
                               IF loop \in DOMAIN @ THEN @
                               ELSE @ @@ (loop :> B.liveness_.live_in[LoopHeader(loop)])]
             ELSE B
      D == Call("ConnectOutgoingPhiMoves", <<C, b>>)
  IN [D EXCEPT !.cursor.i = IF LastInstruction(b).op = "Goto" THEN Len(Body(b)) - 1
                            ELSE Len(Body(b)),
               !.cursor.catch = Blocks[b].try_catch]

\* One turn of the loop over the instructions of the block.
InstructionStep(A, b, i) ==
  LET catch == A.cursor.catch
      pos == GetLifetimePosition(A, b, i)
      live == IF catch # 0 /\ InstrAt(b, i).may_throw THEN A.liveness_.live_in[catch] ELSE {}
      B == FoldSeq(LAMBDA X, v : OnLiveRange(X, v, LAMBDA r :
                      Call("AddUseInterval", <<r, X.start_pos[b], pos + 1>>)),
                   A, Ascending(live))
      C == IF live # {} THEN [B EXCEPT !.cursor.catch = 0] ELSE B
  IN [Call("ProcessOneInstruction", <<C, b, i>>) EXCEPT !.cursor.i = i - 1]

(***************************************************************************)
(* AllocationFinger and splitting.                                         *)
(***************************************************************************)
RECURSIVE AdvanceIndex(_, _, _)
AdvanceIndex(ivs, a, start) ==
  IF a = 0 \/ a > Len(ivs) THEN 0
  ELSE IF ivs[a].end <= start THEN AdvanceIndex(ivs, a + 1, start)
  ELSE a

\* A finger that stays where it is.
StayAtPendingInterval(r, start) == r

\* Advance: the finger after the call; the result of the call is
\* first_pending_use_interval = 0.
Advance(r, start) ==
  [r EXCEPT !.finger.first_pending_use_interval = AdvanceIndex(r.intervals, @, start)]

HasHint(A, use) == use.hint # NullSlot /\ ~IsUnallocated(Deref(A, use.hint))

RECURSIVE FirstHintFrom(_, _, _)
FirstHintFrom(A, r, k) ==
  IF k = 0 \/ k > Len(r.uses) THEN NoLocation
  ELSE IF HasHint(A, r.uses[k]) THEN Deref(A, r.uses[k].hint)
  ELSE FirstHintFrom(A, r, k + 1)

\* FirstHint that finds no hint.
NoHint(A, r) == NoLocation

FirstHint(A, r) == FirstHintFrom(A, r, r.finger.first_hinted_use)

RECURSIVE FirstUseAfter(_, _, _)
FirstUseAfter(uses, k, after) ==
  IF k = 0 \/ k > Len(uses) THEN 0
  ELSE IF uses[k].pos < after THEN FirstUseAfter(uses, k + 1, after)
  ELSE k

RECURSIVE FirstUseSuchThat(_, _, _, _)
FirstUseSuchThat(A, r, k, policies) ==
  IF k = 0 \/ k > Len(r.uses) THEN 0
  ELSE IF Deref(A, r.uses[k].location_slot).k \in policies THEN k
  ELSE FirstUseSuchThat(A, r, k + 1, policies)

\* FirstRegisterUse: the index of the use it returns (0: nullptr).  The call
\* also moves first_register_use_ to that use: RememberRegisterUse.
FirstRegisterUse(A, r, after) ==
  FirstUseSuchThat(A, r, FirstUseAfter(r.uses, r.finger.first_register_use, after),
                   {"RequiresRegister", "RequiresFpuRegister"})

RememberRegisterUse(A, rid, after) ==
  LET k == Call("FirstRegisterUse", <<A, A.ranges[rid], after>>) IN
  IF k = 0 THEN A ELSE [A EXCEPT !.ranges[rid].finger.first_register_use = k]

FirstRegisterBeneficialUse(A, r, after) ==
  FirstUseSuchThat(A, r, FirstUseAfter(r.uses, r.finger.first_register_beneficial_use, after),
                   PolicyKinds \ {"Any"})

RememberRegisterBeneficialUse(A, rid, after) ==
  LET k == Call("FirstRegisterBeneficialUse", <<A, A.ranges[rid], after>>) IN
  IF k = 0 THEN A ELSE [A EXCEPT !.ranges[rid].finger.first_register_beneficial_use = k]

InterferingAfter(after) == IF IsInstructionEndPosition(after) THEN after + 1 ELSE after
FirstInterferingUse(A, r, after) == Call("FirstRegisterUse", <<A, r, InterferingAfter(after)>>)

UpdateAfterSplit(r, finger, first_use_after_split_pos) ==
  [finger EXCEPT
     !.first_register_use =
        IF @ # 0 /\ r.uses[@].pos >= first_use_after_split_pos THEN 0 ELSE @,
     !.first_register_beneficial_use =
        IF @ # 0 /\ r.uses[@].pos >= first_use_after_split_pos THEN 0 ELSE @]

\* A split that keeps only the positions strictly before split_pos, wherever
\* split_pos lies.
RECURSIVE SplitListStrictlyBefore(_, _, _, _)
SplitListStrictlyBefore(list, k, split_pos, split_at_start) ==
  IF k <= Len(list) /\ list[k] < split_pos
    THEN SplitListStrictlyBefore(list, k + 1, split_pos, split_at_start)
    ELSE k - 1

\* SplitListOfPositions: how many positions stay in the head.
RECURSIVE SplitListOfPositions(_, _, _, _)
SplitListOfPositions(list, k, split_pos, split_at_start) ==
  IF k <= Len(list)
     /\ (IF split_at_start THEN list[k] < split_pos ELSE list[k] <= split_pos)
    THEN SplitListOfPositions(list, k + 1, split_pos, split_at_start)
    ELSE k - 1

RECURSIVE FirstEndingAfter(_, _, _)
FirstEndingAfter(ivs, k, split_pos) ==
  IF ivs[k].end <= split_pos THEN FirstEndingAfter(ivs, k + 1, split_pos) ELSE k

\* LiveRange::SplitAt on range rid of the arena; SplitAtResult is the range it
\* returns.  The caller keeps Start() <= split_pos < End().
SplitAtResult(A, rid, split_pos) ==
  IF Start(A.ranges[rid]) = split_pos THEN rid ELSE Len(A.ranges) + 1

\* A sibling that gets the interval containing split_pos at its full length.
WholeAfterSplit(ivs, k, breaks, split_pos) == SubSeq(ivs, k, Len(ivs))

\* The use intervals that go to the new sibling: from interval k on, the part
\* of interval k after split_pos when split_pos is inside it.
first_after_split(ivs, k, breaks, split_pos) ==
  IF breaks
    THEN <<UseInterval(split_pos, ivs[k].end)>> \o SubSeq(ivs, k + 1, Len(ivs))
    ELSE SubSeq(ivs, k, Len(ivs))

\* A split that leaves the interval containing split_pos at its full length.
UnshortenedBeforeSplit(ivs, k, breaks, split_pos) ==
  IF breaks THEN SubSeq(ivs, 1, k) ELSE SubSeq(ivs, 1, k - 1)

\* The use intervals that stay with the range: those before interval k, and
\* the part of interval k before split_pos when split_pos is inside it.
last_before_split(ivs, k, breaks, split_pos) ==
  IF breaks
    THEN Append(SubSeq(ivs, 1, k - 1), UseInterval(ivs[k].start, split_pos))
    ELSE SubSeq(ivs, 1, k - 1)

SplitAt(A, rid, split_pos) ==
  LET r0 == A.ranges[rid]
      \* The head keeps nu use positions and ns safepoints; interval k is the
      \* first one that ends after split_pos.
      Divide(r, k, split_at_start, nu, ns) ==
        LET ivs == r.intervals
            breaks == ~split_at_start /\ IntervalContains(ivs[k], split_pos)
            sibling == [NewLiveRange(r.vreg, r.representation) EXCEPT
                          !.uses = SubSeq(r.uses, nu + 1, Len(r.uses)),
                          !.intervals = first_after_split(ivs, k, breaks, split_pos),
                          !.safepoints = SubSeq(r.safepoints, ns + 1, Len(r.safepoints)),
                          !.next_sibling = r.next_sibling]
            head == [r EXCEPT
                       !.uses = SubSeq(r.uses, 1, nu),
                       !.intervals = last_before_split(ivs, k, breaks, split_pos),
                       !.safepoints = SubSeq(r.safepoints, 1, ns),
                       !.next_sibling = Len(A.ranges) + 1,
                       !.finger = IF nu < Len(r.uses)
                                    THEN UpdateAfterSplit(r, @, r.uses[nu + 1].pos) ELSE @]
        IN [A EXCEPT !.ranges = Append([@ EXCEPT ![rid] = head], sibling),
                     !.history.splits =
                        Append(@, [split_pos |-> split_pos, range |-> r0, head |-> head,
                                   sibling |-> sibling])]
      Lists(r, k, split_at_start) ==
        Divide(r, k, split_at_start,
               SplitListOfPositions([n \in 1..Len(r.uses) |-> r.uses[n].pos], 1,
                                    split_pos, split_at_start),
               SplitListOfPositions(r.safepoints, 1, split_pos, split_at_start))
      Interval(r, k) == Lists(r, k, r.intervals[k].start = split_pos)
      \* A finger that an earlier split left pointing at an interval of the
      \* sibling points behind split_pos too.
      Search(r, fp) ==
        Interval(r, FirstEndingAfter(r.intervals,
                                     IF fp > Len(r.intervals) \/ split_pos <= r.intervals[fp].start
                                       THEN 1 ELSE fp,
                                     split_pos))
      Initialized(r) == Search(r, r.finger.first_pending_use_interval)
  IN IF Start(r0) = split_pos THEN A
     ELSE Initialized(IF r0.finger.first_pending_use_interval = 0 THEN Initialize(r0) ELSE r0)

\* loop_info of the block, or the first loop that linearly surrounds `to`.
SplitLoop(A, b, to) ==
  IF Blocks[b].loop # 0 THEN Blocks[b].loop
  ELSE LET found == {l \in 1..Len(flow_graph_.loops) :
                        Call("ExtraLoopInfo", <<A, l>>).start < to /\ to < Call("ExtraLoopInfo", <<A, l>>).end}
       IN IF found = {} THEN 0 ELSE CHOOSE l \in found : \A m \in found : l <= m

RECURSIVE OutermostHeaderAfter(_, _, _, _)
OutermostHeaderAfter(A, entry, loop, from) ==
  IF loop # 0 /\ from < A.start_pos[LoopHeader(loop)]
    THEN OutermostHeaderAfter(A, LoopHeader(loop), flow_graph_.loops[loop].outer, from)
    ELSE entry

\* A split inside one block at the start of the instruction at `to`.
SplitAtInstructionStart(A, from, to) ==
  LET split_block_entry == BlockEntryAt(A, to) IN
  IF from < A.start_pos[split_block_entry]
    THEN A.start_pos[OutermostHeaderAfter(A, split_block_entry,
                                          SplitLoop(A, split_block_entry, to), from)]
    ELSE ToInstructionStart(to)

SplitBetweenPos(A, from, to) ==
  LET split_block_entry == BlockEntryAt(A, to) IN
  IF from < A.start_pos[split_block_entry]
    THEN A.start_pos[OutermostHeaderAfter(A, split_block_entry,
                                          SplitLoop(A, split_block_entry, to), from)]
    ELSE ToInstructionStart(to) - 1

SplitBetween(A, rid, from, to) ==
  LET split_pos == Call("SplitBetweenPos", <<A, from, to>>)
      B == Call("SplitAt", <<A, rid, split_pos>>)
  IN [B EXCEPT !.history.split_between =
                  Append(@, [from |-> from, to |-> to, split_pos |-> split_pos,
                             range |-> A.ranges[rid]])]
SplitBetweenResult(A, rid, from, to) == SplitAtResult(A, rid, Call("SplitBetweenPos", <<A, from, to>>))

(***************************************************************************)
(* Spill slots.  spill_slots_[idx] is kept at index idx + 1 of the         *)
(* sequences.                                                              *)
(***************************************************************************)
kDoubleSpillFactor == 2
first_local_from_fp == -2
FrameSlotForVariableIndex(index) == first_local_from_fp + index
VariableIndexForFrameSlot(slot) == slot - first_local_from_fp

QuadRepresentations == {"kUnboxedFloat32x4", "kUnboxedInt32x4", "kUnboxedFloat64x2"}
WordRepresentations == {"kTagged", "kUntagged", "kUnboxedInt64", "kPairOfTagged"}

RECURSIVE LastSibling(_, _)
LastSibling(rs, rid) ==
  IF rs[rid].next_sibling = 0 THEN rid ELSE LastSibling(rs, rs[rid].next_sibling)

RECURSIVE Siblings(_, _)
Siblings(rs, rid) ==
  IF rid = 0 THEN <<>> ELSE <<rid>> \o Siblings(rs, rs[rid].next_sibling)

\* A search that takes the first slot of the right width and tagging whether
\* the value in it is dead or not.
RECURSIVE SlotOfAnyAge(_, _, _, _, _)
SlotOfAnyAge(A, idx, need_quad, need_untagged, start) ==
  IF idx < Len(A.spill_slots_)
     /\ ~(/\ need_quad = A.quad_spill_slots_[idx + 1]
          /\ need_untagged = A.untagged_spill_slots_[idx + 1])
    THEN SlotOfAnyAge(A, idx + 1, need_quad, need_untagged, start)
    ELSE idx

\* A search that takes the first expired slot of the right tagging whatever
\* its width.
RECURSIVE FirstExpiredSlot(_, _, _, _, _)
FirstExpiredSlot(A, idx, need_quad, need_untagged, start) ==
  IF idx < Len(A.spill_slots_)
     /\ ~(/\ need_untagged = A.untagged_spill_slots_[idx + 1]
          /\ A.spill_slots_[idx + 1] <= start)
    THEN FirstExpiredSlot(A, idx + 1, need_quad, need_untagged, start)
    ELSE idx

RECURSIVE FreeSpillSlot(_, _, _, _, _)
FreeSpillSlot(A, idx, need_quad, need_untagged, start) ==
  IF idx < Len(A.spill_slots_)
     /\ ~(/\ need_quad = A.quad_spill_slots_[idx + 1]
          /\ need_untagged = A.untagged_spill_slots_[idx + 1]
          /\ A.spill_slots_[idx + 1] <= start)
    THEN FreeSpillSlot(A, idx + 1, need_quad, need_untagged, start)
    ELSE idx

Pad(list, n, x) ==
  IF Len(list) < n THEN list \o [k \in 1..(n - Len(list)) |-> x] ELSE list

AllocateSpillSlotFor(A, rid) ==
  LET range == A.ranges[rid]
      start == Start(range)
      need_quad == A.register_kind_ = "FpuRegister" /\ range.representation \in QuadRepresentations
      need_untagged == A.register_kind_ = "Register" /\ range.representation = "kUntagged"
      first == IF A.register_kind_ = "Register" THEN flow_graph_.fixed_slot_count ELSE 0
      Location(last) ==
        IF range.representation \in WordRepresentations
          THEN StackSlot(FrameSlotForVariableIndex(-last))
          ELSE LET slot_idx == FrameSlotForVariableIndex(
                     -(A.cpu_spill_slot_count_ + last * kDoubleSpillFactor
                       + (kDoubleSpillFactor - 1)))
               IN IF range.representation \in QuadRepresentations
                    THEN QuadStackSlot(slot_idx) ELSE DoubleStackSlot(slot_idx)
      Assign(B, idx, last, fresh, end, location) ==
        [B EXCEPT
           !.ranges[rid].spill_slot = location,
           !.spilled_ = Append(@, rid),
           !.history.allocated = Append(@,
               [vreg |-> range.vreg, representation |-> range.representation,
                kind |-> A.register_kind_, first |-> idx, last |-> last,
                fresh |-> fresh, start |-> start, end |-> end, location |-> location,
                before |-> [expiry |-> A.spill_slots_, quad |-> A.quad_spill_slots_,
                            untagged |-> A.untagged_spill_slots_],
                after |-> [expiry |-> B.spill_slots_, quad |-> B.quad_spill_slots_,
                           untagged |-> B.untagged_spill_slots_]])]
      \* spill_slots_[idx + 1] of a quad slot found at the last index would be
      \* outside the array: recorded in history.fatal.
      Stamp(added, idx, last, fresh, end) ==
        Assign([added EXCEPT
                  !.spill_slots_ = [k \in 1..Len(@) |->
                                      IF k = idx + 1 \/ k = last + 1 THEN end ELSE @[k]],
                  !.history.fatal = @ \/ last + 1 > Len(added.spill_slots_)],
               idx, last, fresh, end, Location(last))
      \* Allocate new slot(s) when none was found.
      Grow(padded, idx) ==
        Stamp(IF idx = Len(padded.spill_slots_)
                THEN [padded EXCEPT
                        !.spill_slots_ = @ \o (IF need_quad THEN <<0, 0>> ELSE <<0>>),
                        !.quad_spill_slots_ =
                           @ \o (IF need_quad THEN <<TRUE, TRUE>> ELSE <<need_quad>>),
                        !.untagged_spill_slots_ =
                           @ \o (IF need_quad THEN <<need_untagged, need_untagged>>
                                 ELSE <<need_untagged>>)]
                ELSE padded,
              idx, IF need_quad THEN idx + 1 ELSE idx, idx = Len(padded.spill_slots_),
              End(A.ranges[LastSibling(A.ranges, rid)]))
      Found(idx) ==
        Grow([A EXCEPT !.spill_slots_ = Pad(@, idx, kMaxPosition),
                       !.quad_spill_slots_ = Pad(@, idx, FALSE),
                       !.untagged_spill_slots_ = Pad(@, idx, FALSE)],
             idx)
  IN Found(FreeSpillSlot(A, first, need_quad, need_untagged, start))

\* The spill index of a stack location of this frame.
StackIndex(loc) == -VariableIndexForFrameSlot(loc.n)

MarkAsObjectAtSafepoints(A, rid) ==
  LET stack_index == StackIndex(A.ranges[rid].spill_slot)
      at == UNION {{ToInstructionStart(p) : p \in SeqToSet(A.ranges[s].safepoints)} :
                   s \in SeqToSet(Siblings(A.ranges, rid))}
  IN [A EXCEPT !.stack_bitmap =
        [p \in (DOMAIN @) \cup at |->
           (IF p \in DOMAIN @ THEN @[p] ELSE {}) \cup (IF p \in at THEN {stack_index} ELSE {})]]

ConvertUseTo(A, use, loc) ==
  Written(Store(A, use.location_slot, loc), use.location_slot, "ConvertUseTo")

\* ConvertAllUses that leaves the location slots of the uses as they are.
ConvertNoUses(A, rid) == A

ConvertAllUses(A, rid) ==
  LET range == A.ranges[rid] IN
  IF range.vreg = kNoVirtualRegister THEN A
  ELSE FoldSeq(LAMBDA X, use : ConvertUseTo(X, use, range.assigned_location), A, range.uses)

\* Spill that allocates the spill slot of the value but leaves the range
\* without a location.
SpillWithoutLocation(A, rid) ==
  IF IsInvalid(A.ranges[A.live_ranges_[A.ranges[rid].vreg]].spill_slot)
    THEN Call("AllocateSpillSlotFor", <<A, A.live_ranges_[A.ranges[rid].vreg]>>)
    ELSE A

Spill(A, rid) ==
  LET range == A.ranges[rid]
      parent == A.live_ranges_[range.vreg]
      B == IF IsInvalid(A.ranges[parent].spill_slot)
             THEN LET C == Call("AllocateSpillSlotFor", <<A, parent>>) IN
                  IF range.representation = "kTagged" THEN Call("MarkAsObjectAtSafepoints", <<C, parent>>)
                  ELSE C
             ELSE A
  IN Call("ConvertAllUses", <<[B EXCEPT !.ranges[rid].assigned_location = B.ranges[parent].spill_slot],
                    rid>>)

\* A spill of the whole range, its register uses included.
SpillWholeRange(A, rid, from, to) == Call("Spill", <<A, rid>>)

SpillBetween(A, rid, from, to) ==
  LET tail == SplitAtResult(A, rid, from)
      B == Call("SplitAt", <<A, rid, from>>)
  IN IF Start(B.ranges[tail]) < to
       THEN LET tail_tail == Call("SplitBetweenResult", <<B, tail, Start(B.ranges[tail]), to>>)
                C == Call("SplitBetween", <<B, tail, Start(B.ranges[tail]), to>>)
            IN Call("AddToUnallocated", <<Call("Spill", <<C, tail>>), tail_tail>>)
       ELSE Call("AddToUnallocated", <<B, tail>>)

RangeHasOnlyUnconstrainedUsesInLoop(A, range, loop_id) ==
  range.vreg >= 0 /\ loop_id \in A.ranges[A.live_ranges_[range.vreg]].only_any_loops

SpillAfter(A, rid, from0) ==
  LET range == A.ranges[rid]
      loop == Blocks[BlockEntryAt(A, from0)].loop
      from == IF loop # 0 /\ Start(range) <= A.start_pos[LoopHeader(loop)]
                 /\ RangeHasOnlyUnconstrainedUsesInLoop(A, range, loop)
                THEN A.start_pos[LoopHeader(loop)] ELSE from0
      tail == SplitAtResult(A, rid, from)
  IN Call("Spill", <<Call("SplitAt", <<A, rid, from>>), tail>>)

(***************************************************************************)
(* The allocation loop.                                                    *)
(***************************************************************************)
kNoRegister == -1
NumberOfRegisters(A) ==
  IF A.register_kind_ = "Register" THEN kNumberOfCpuRegisters ELSE kNumberOfFpuRegisters
\* The order (i + kRegisterAllocationBias) % NumberOfRegisters() for i = 0, 1, ...
RegisterOrder(A) ==
  [k \in 1..NumberOfRegisters(A) |-> ((k - 1) + kRegisterAllocationBias) % NumberOfRegisters(A)]
MakeRegisterLocation(A, reg) == MachineRegisterLocation(A.register_kind_, reg)

PendingInterval(r) == r.intervals[r.finger.first_pending_use_interval]

RECURSIVE FirstIntersectionWithAllocatedFrom(_, _, _, _, _)
FirstIntersectionWithAllocatedFrom(A, reg, unallocated, i, intersection) ==
  IF i > Len(A.registers_[reg]) THEN intersection
  ELSE LET allocated == A.ranges[A.registers_[reg][i]]
           pos == Call("FirstIntersection", <<unallocated.intervals,
                                    unallocated.finger.first_pending_use_interval,
                                    allocated.intervals,
                                    allocated.finger.first_pending_use_interval>>)
       IN FirstIntersectionWithAllocatedFrom(A, reg, unallocated, i + 1,
            IF PendingInterval(allocated).start >= intersection THEN intersection
            ELSE MinPosition(pos, intersection))

FirstIntersectionWithAllocated(A, reg, unallocated) ==
  FirstIntersectionWithAllocatedFrom(A, reg, unallocated, 1, kMaxPosition)

\* ReachingDefs::Get: the inputs of the phi, through the phis among them.
PhiOf(v) ==
  LET at == {<<b, k>> \in BlockIds \X (1..Cardinality(VregIds)) :
               k <= Len(Blocks[b].phis) /\ Blocks[b].phis[k].vreg = v}
  IN IF at = {} THEN <<>> ELSE LET c == CHOOSE x \in at : TRUE
                               IN Blocks[c[1]].phis[c[2]].inputs
RECURSIVE ReachingDefsClosure(_)
ReachingDefsClosure(defs) ==
  LET more == defs \cup UNION {SeqToSet(PhiOf(v)) : v \in defs}
  IN IF more = defs THEN defs ELSE ReachingDefsClosure(more)
ReachingDefs(phi) ==
  LET inputs == SeqToSet(phi.inputs)
      through == UNION {ReachingDefsClosure(SeqToSet(PhiOf(v))) : v \in inputs}
  IN inputs \cup through

\* No scan for a register that is free for longer: the first candidate stays.
KeepFirstCandidate(A, unallocated, k, best) == best

\* The scan for a register whose first intersection is later (free_until is
\* not kMaxPosition): [candidate, free_until] after the scan.
RECURSIVE ScanForLater(_, _, _, _)
ScanForLater(A, unallocated, k, best) ==
  IF k > NumberOfRegisters(A) THEN best
  ELSE LET reg == RegisterOrder(A)[k] IN
       IF A.blocked_registers_[reg] \/ reg = best.candidate
         THEN Call("ScanForLater", <<A, unallocated, k + 1, best>>)
       ELSE LET intersection == Call("FirstIntersectionWithAllocated", <<A, reg, unallocated>>) IN
            IF intersection > best.free_until
              THEN (IF intersection = kMaxPosition
                      THEN [candidate |-> reg, free_until |-> intersection]
                      ELSE Call("ScanForLater", <<A, unallocated, k + 1,
                                        [candidate |-> reg, free_until |-> intersection]>>))
              ELSE Call("ScanForLater", <<A, unallocated, k + 1, best>>)

UsedOnBackedge(A, loop, vreg) ==
  LET header == LoopHeader(loop) IN
  {A.ranges[A.live_ranges_[Blocks[header].phis[k].vreg]].assigned_location.n :
     k \in {n \in 1..Len(Blocks[header].phis) :
              /\ A.live_ranges_[Blocks[header].phis[n].vreg] # 0
              /\ A.ranges[A.live_ranges_[Blocks[header].phis[n].vreg]].assigned_location.k
                   = A.register_kind_
              /\ vreg \notin ReachingDefs(Blocks[header].phis[n])}}

RECURSIVE ScanForBackedge(_, _, _, _, _)
ScanForBackedge(A, unallocated, used, k, best) ==
  IF k > NumberOfRegisters(A) THEN best
  ELSE LET reg == RegisterOrder(A)[k] IN
       IF A.blocked_registers_[reg] \/ reg = best.candidate \/ reg \in used
         THEN Call("ScanForBackedge", <<A, unallocated, used, k + 1, best>>)
       ELSE LET intersection == Call("FirstIntersectionWithAllocated", <<A, reg, unallocated>>) IN
            IF intersection >= best.free_until
              THEN [candidate |-> reg, free_until |-> intersection]
              ELSE Call("ScanForBackedge", <<A, unallocated, used, k + 1, best>>)

\* The register AllocateFreeRegister settles on and until where it is free.
FreeRegisterCandidate(A, rid) ==
  LET unallocated == A.ranges[rid]
      own_hint == Call("FirstHint", <<A, unallocated>>)
      parent == IF unallocated.vreg >= 0 THEN A.ranges[A.live_ranges_[unallocated.vreg]]
                ELSE unallocated
      empty == {k \in 1..NumberOfRegisters(A) :
                  ~A.blocked_registers_[RegisterOrder(A)[k]]
                  /\ A.registers_[RegisterOrder(A)[k]] = <<>>}
      loop == Blocks[BlockEntryAt(A, Start(unallocated))].loop
      \* A register that stays free over the whole back edge of the loop.
      Backedge(second) ==
        IF /\ second.free_until > Start(unallocated)
           /\ unallocated.vreg >= 0 /\ loop # 0
           /\ second.free_until >= Call("ExtraLoopInfo", <<A, loop>>).end
           /\ loop \in DOMAIN A.backedge_interference
           /\ unallocated.vreg \in A.backedge_interference[loop]
           /\ second.candidate \in Call("UsedOnBackedge", <<A, loop, unallocated.vreg>>)
          THEN Call("ScanForBackedge", <<A, unallocated,
                               Call("UsedOnBackedge", <<A, loop, unallocated.vreg>>), 1, second>>)
          ELSE second
      \* The register that stays free the longest.
      Later(first) ==
        Backedge(IF first.free_until # kMaxPosition
                   THEN Call("ScanForLater", <<A, unallocated, 1, first>>) ELSE first)
      \* The hinted register, or else the first empty one.
      Hinted(hint) ==
        Later(IF IsMachineRegister(hint)
                THEN (IF ~A.blocked_registers_[hint.n]
                        THEN [candidate |-> hint.n,
                              free_until |-> Call("FirstIntersectionWithAllocated", <<A, hint.n, unallocated>>)]
                        ELSE [candidate |-> kNoRegister, free_until |-> 0])
                ELSE (IF empty # {}
                        THEN [candidate |-> RegisterOrder(A)[CHOOSE k \in empty : \A n \in empty : k <= n],
                              free_until |-> kMaxPosition]
                        ELSE [candidate |-> kNoRegister, free_until |-> 0]))
  IN Hinted(IF ~IsMachineRegister(own_hint) /\ unallocated.vreg >= 0
               /\ End(parent) = Start(unallocated)
               /\ ~IsBlockEntry(A, Start(unallocated))
               /\ IsMachineRegister(parent.assigned_location)
              THEN parent.assigned_location ELSE own_hint)

\* A register that is free exactly until the start of the range counts as free.
FreeUntilStartIsFree(A, rid) ==
  Call("FreeRegisterCandidate", <<A, rid>>).free_until >= Start(A.ranges[rid])

\* AllocateFreeRegister returns FreeRegisterFound; when it is true the state
\* is AllocateFreeRegister(A, rid).
FreeRegisterFound(A, rid) ==
  Call("FreeRegisterCandidate", <<A, rid>>).free_until > Start(A.ranges[rid])

AllocateFreeRegister(A, rid) ==
  LET best == Call("FreeRegisterCandidate", <<A, rid>>)
      split == best.free_until # kMaxPosition
      tail == SplitAtResult(A, rid, best.free_until)
      B == IF split THEN Call("AddToUnallocated", <<Call("SplitAt", <<A, rid, best.free_until>>), tail>>) ELSE A
      unallocated == B.ranges[rid]
  IN IF split /\ unallocated.uses = <<>> /\ unallocated.vreg >= 0
        /\ IsConstant(B.ranges[B.live_ranges_[unallocated.vreg]].spill_slot)
       THEN Call("Spill", <<B, rid>>)
       ELSE [B EXCEPT !.registers_[best.candidate] = Append(@, rid),
                      !.ranges[rid].assigned_location = MakeRegisterLocation(B, best.candidate)]

\* UpdateFreeUntil walks registers_[reg]; acc is [A, ok, free_until,
\* blocked_at], where A carries the fingers that FirstInterferingUse moved.
RECURSIVE UpdateFreeUntilFrom(_, _, _, _, _)
UpdateFreeUntilFrom(acc, reg, rid, i, cur_free_until) ==
  LET A == acc.A IN
  IF i > Len(A.registers_[reg]) THEN [acc EXCEPT !.ok = TRUE]
  ELSE
    LET aid == A.registers_[reg][i]
        allocated == A.ranges[aid]
        start == Start(A.ranges[rid])
        active == IntervalContains(PendingInterval(allocated), start)
        use == Call("FirstInterferingUse", <<A, allocated, start>>)
        B == IF active /\ allocated.vreg >= 0
               THEN Call("RememberRegisterUse", <<A, aid, InterferingAfter(start)>>) ELSE A
        use_pos == IF use # 0 THEN allocated.uses[use].pos ELSE End(allocated)
        intersection == Call("FirstIntersection", <<allocated.intervals,
                                          allocated.finger.first_pending_use_interval,
                                          A.ranges[rid].intervals, 1>>)
        free_until ==
          IF active THEN MinPosition(use_pos, acc.free_until)
          ELSE IF intersection # kMaxPosition THEN MinPosition(intersection, acc.free_until)
          ELSE acc.free_until
        blocked_at ==
          IF ~active /\ intersection # kMaxPosition /\ allocated.vreg = kNoVirtualRegister
            THEN intersection ELSE acc.blocked_at
    IN IF active /\ allocated.vreg < 0 THEN [acc EXCEPT !.ok = FALSE]
       ELSE IF active /\ use # 0 /\ ToInstructionStart(allocated.uses[use].pos) - start <= 1
         THEN [acc EXCEPT !.A = B, !.ok = FALSE]
       ELSE IF free_until <= cur_free_until
         THEN [acc EXCEPT !.A = B, !.ok = FALSE]
       ELSE Call("UpdateFreeUntilFrom", <<[A |-> B, ok |-> FALSE, free_until |-> free_until,
                                 blocked_at |-> blocked_at],
                                reg, rid, i + 1, cur_free_until>>)

UpdateFreeUntil(A, reg, rid, cur_free_until) ==
  Call("UpdateFreeUntilFrom", <<[A |-> A, ok |-> FALSE, free_until |-> kMaxPosition,
                       blocked_at |-> kMaxPosition], reg, rid, 1, cur_free_until>>)

\* The loop of AllocateAnyRegister over the registers: [A, candidate,
\* free_until, blocked_at].
RECURSIVE AnyRegisterCandidate(_, _, _)
AnyRegisterCandidate(acc, rid, k) ==
  IF k > NumberOfRegisters(acc.A) THEN acc
  ELSE LET reg == RegisterOrder(acc.A)[k] IN
       IF acc.A.blocked_registers_[reg] THEN Call("AnyRegisterCandidate", <<acc, rid, k + 1>>)
       ELSE LET u == Call("UpdateFreeUntil", <<acc.A, reg, rid, acc.free_until>>) IN
            Call("AnyRegisterCandidate", <<
              IF u.ok THEN [A |-> u.A, candidate |-> reg, free_until |-> u.free_until,
                            blocked_at |-> u.blocked_at]
              ELSE [acc EXCEPT !.A = u.A],
              rid, k + 1>>)

IsCheapToEvictRegisterInLoop(A, loop, reg) ==
  LET info == Call("ExtraLoopInfo", <<A, loop>>) IN
  \A i \in 1..Len(A.registers_[reg]) :
     LET allocated == A.ranges[A.registers_[reg][i]]
         interval == PendingInterval(allocated)
     IN IF IntervalContains(interval, info.start)
          THEN RangeHasOnlyUnconstrainedUsesInLoop(A, allocated, loop)
          ELSE ~(interval.start < info.end)

HasCheapEvictionCandidate(A, phi_range) ==
  LET header == BlockEntryAt(A, Start(phi_range)) IN
  \E reg \in 0..(NumberOfRegisters(A) - 1) :
     ~A.blocked_registers_[reg] /\ IsCheapToEvictRegisterInLoop(A, Blocks[header].loop, reg)

\* EvictIntersection without the test for an intersection: nothing is evicted.
EvictsNothing(A, aid, rid) == FALSE

\* EvictIntersection: whether `allocated` is evicted, and the state after.
Evicts(A, aid, rid) ==
  Call("FirstIntersection", <<A.ranges[aid].intervals, A.ranges[aid].finger.first_pending_use_interval,
                    A.ranges[rid].intervals, A.ranges[rid].finger.first_pending_use_interval>>)
    # kMaxPosition

EvictIntersection(A, aid, rid) ==
  LET allocated == A.ranges[aid]
      first_unallocated == PendingInterval(A.ranges[rid])
      intersection ==
        Call("FirstIntersection", <<allocated.intervals, allocated.finger.first_pending_use_interval,
                          A.ranges[rid].intervals, A.ranges[rid].finger.first_pending_use_interval>>)
      spill_position == first_unallocated.start
      use == Call("FirstInterferingUse", <<A, allocated, spill_position>>)
      B == Call("RememberRegisterUse", <<A, aid, InterferingAfter(spill_position)>>)
      restore_position ==
        IF spill_position < intersection
          THEN MinPosition(intersection, allocated.uses[use].pos)
          ELSE allocated.uses[use].pos
  IN IF use = 0 THEN Call("SpillAfter", <<B, aid, spill_position>>)
     ELSE Call("SpillBetween", <<B, aid, spill_position, restore_position>>)

RECURSIVE EvictFrom(_, _, _, _)
EvictFrom(A, reg, rid, i) ==
  IF i = 0 THEN A
  ELSE LET aid == A.registers_[reg][i] IN
       IF A.ranges[aid].vreg < 0 \/ ~Evicts(A, aid, rid) THEN Call("EvictFrom", <<A, reg, rid, i - 1>>)
       ELSE LET B == Call("EvictIntersection", <<A, aid, rid>>)
                C == IF IsMachineRegister(B.ranges[aid].assigned_location)
                       THEN Call("ConvertAllUses", <<B, aid>>) ELSE B
            IN Call("EvictFrom", <<[C EXCEPT !.registers_[reg][i] = 0], reg, rid, i - 1>>)

\* RemoveEvicted: the entries set to nullptr are dropped.
RemoveEvicted(list) == SelectSeq(list, LAMBDA x : x # 0)

\* The ranges on the register are evicted and the range is not put on it.
EvictWithoutAssigning(A, rid, reg) ==
  LET B == Call("EvictFrom", <<A, reg, rid, Len(A.registers_[reg])>>) IN
  [B EXCEPT !.registers_[reg] = RemoveEvicted(@)]

AssignNonFreeRegister(A, rid, reg) ==
  LET B == Call("EvictFrom", <<A, reg, rid, Len(A.registers_[reg])>>) IN
  [B EXCEPT !.registers_[reg] = Append(RemoveEvicted(@), rid),
            !.ranges[rid].assigned_location = MakeRegisterLocation(B, reg)]

\* AllocateAnyRegister that gives up: the range leaves the worklist without
\* a register and without a spill slot.
LeaveUnallocated(A0, rid) == A0

\* What a call of AllocateAnyRegister on range rid leaves to compare: the
\* range and its next sibling, the worklist, and for every register the
\* ranges allocated to it with their intervals and locations.
EvictionFrame(A, rid) ==
  [range |-> A.ranges[rid],
   sibling |-> IF A.ranges[rid].next_sibling = 0 THEN <<>>
               ELSE <<A.ranges[A.ranges[rid].next_sibling]>>,
   unallocated_ |-> A.unallocated_,
   registers_ |-> [reg \in DOMAIN A.registers_ |->
                     [i \in 1..Len(A.registers_[reg]) |->
                        [id |-> A.registers_[reg][i],
                         intervals |-> A.ranges[A.registers_[reg][i]].intervals,
                         assigned_location |-> A.ranges[A.registers_[reg][i]].assigned_location]]]]

AllocateAnyRegister(A0, rid) ==
  LET unallocated == A0.ranges[rid]
      register_use == Call("FirstRegisterUse", <<A0, unallocated, Start(unallocated)>>)
      \* history.any_register: AllocateAnyRegister was executed.
      A == Call("RememberRegisterUse", <<[A0 EXCEPT !.history.any_register = TRUE], rid,
                                         Start(unallocated)>>)
      \* history.any_calls records the call: what every register that is not
      \* blocked offers when looked at alone, what the loop settled on, where
      \* the range was split when the register is blocked before its end, and
      \* the frame before and after.
      Record(R, taken, best, split_pos) ==
        [R EXCEPT !.history.any_calls =
           Append(@, [taken |-> taken, id |-> rid,
                      register_use_pos |-> IF register_use # 0
                                             THEN unallocated.uses[register_use].pos
                                             ELSE kIllegalPosition,
                      offer |-> [reg \in {r \in DOMAIN A.registers_ : ~A.blocked_registers_[r]} |->
                                   LET u == Call("UpdateFreeUntil", <<A, reg, rid, 0>>)
                                   IN [ok |-> u.ok, free_until |-> u.free_until,
                                       blocked_at |-> u.blocked_at]],
                      candidate |-> best.candidate, free_until |-> best.free_until,
                      blocked_at |-> best.blocked_at, split_pos |-> split_pos,
                      before |-> EvictionFrame(A0, rid), after |-> EvictionFrame(R, rid)])]
  IN IF register_use = 0
        /\ ~(unallocated.is_loop_phi /\ Call("HasCheapEvictionCandidate", <<A, unallocated>>))
       THEN Record(Call("Spill", <<A, rid>>), "Spill",
                   [candidate |-> kNoRegister, free_until |-> 0, blocked_at |-> kMaxPosition],
                   kIllegalPosition)
     ELSE
       LET best == Call("AnyRegisterCandidate", <<[A |-> A, candidate |-> kNoRegister, free_until |-> 0,
                                         blocked_at |-> kMaxPosition], rid, 1>>)
           B == best.A
           register_use_pos == IF register_use # 0 THEN unallocated.uses[register_use].pos
                               ELSE Start(unallocated)
       IN IF best.free_until < register_use_pos
            THEN (IF register_use = 0 THEN [B EXCEPT !.history.fatal = TRUE]
                  ELSE Record(Call("SpillBetween", <<B, rid, Start(unallocated),
                                                     unallocated.uses[register_use].pos>>),
                              "SpillBetween", best, kIllegalPosition))
          ELSE
            LET split == best.blocked_at < End(unallocated)
                tail == Call("SplitBetweenResult", <<B, rid, Start(unallocated), best.blocked_at + 1>>)
                C == IF split
                       THEN Call("AddToUnallocated", <<
                              Call("SplitBetween", <<B, rid, Start(unallocated), best.blocked_at + 1>>), tail>>)
                       ELSE B
            IN Record(Call("AssignNonFreeRegister", <<C, rid, best.candidate>>),
                      "AssignNonFreeRegister", best,
                      IF split THEN Call("SplitBetweenPos", <<B, Start(unallocated),
                                                              best.blocked_at + 1>>)
                      ELSE kIllegalPosition)

\* The registers in the order AdvanceActiveIntervals visits them; a range
\* whose finger has passed its last interval is converted and removed.
AdvanceRegister(A, reg, start) ==
  LET One(X, i) ==
        LET aid == X.registers_[reg][i]
            Y == [X EXCEPT !.ranges[aid] = Advance(@, start)]
            Z == Call("ConvertAllUses", <<Y, aid>>)
        IN IF Y.ranges[aid].finger.first_pending_use_interval = 0
             \* history.removed: the range that leaves the list, and what its
             \* use slots hold when it leaves.
             THEN [Z EXCEPT !.registers_[reg][i] = 0,
                            !.history.removed =
                               Append(@, [start |-> start, id |-> aid, vreg |-> Z.ranges[aid].vreg,
                                          assigned_location |-> Z.ranges[aid].assigned_location,
                                          slots |-> [k \in 1..Len(Z.ranges[aid].uses) |->
                                                       Deref(Z, Z.ranges[aid].uses[k].location_slot)]])]
             ELSE Y
      n == Len(A.registers_[reg])
      B == FoldSeq(One, A, [k \in 1..n |-> n + 1 - k])
  IN [B EXCEPT !.registers_[reg] = RemoveEvicted(@)]

\* history.advanced: the ranges that the per-register lists hold after the
\* call, with their first pending use intervals (<<>> for nullptr).
AdvanceActiveIntervals(A, start) ==
  LET B == FoldSeq(LAMBDA X, reg : AdvanceRegister(X, reg, start), A, RegisterOrder(A))
      held == UNION {SeqToSet(B.registers_[reg]) : reg \in DOMAIN B.registers_}
  IN [B EXCEPT !.history.advanced =
         Append(@, [start |-> start, kind |-> A.register_kind_,
                    before |-> UNION {SeqToSet(A.registers_[reg]) : reg \in DOMAIN A.registers_},
                    held |-> {[id |-> aid,
                               first_pending_use_interval |->
                                  IF B.ranges[aid].finger.first_pending_use_interval = 0 THEN <<>>
                                  ELSE <<PendingInterval(B.ranges[aid])>>] : aid \in held}])]

(***************************************************************************)
(* Initial definitions and the end of a block in BuildLiveRanges.          *)
(***************************************************************************)
SplitInitialDefinitionAt(A, rid, pos, kind) ==
  IF End(A.ranges[rid]) > pos
    THEN Call("CompleteRange", <<Call("SplitAt", <<A, rid, pos>>), SplitAtResult(A, rid, pos), kind>>)
    ELSE A

\* history.reserved records the call: the slot, the end of the range and the
\* expiry positions before and after.
AllocateSpillSlotForInitialDefinition(A, slot_index, range_end) ==
  LET B == IF slot_index < Len(A.spill_slots_)
             THEN [A EXCEPT !.spill_slots_[slot_index + 1] = Maximum(@, range_end)]
             ELSE [A EXCEPT !.spill_slots_ = Append(Pad(@, slot_index, kMaxPosition), range_end),
                            !.quad_spill_slots_ = Append(Pad(@, slot_index, FALSE), FALSE),
                            !.untagged_spill_slots_ = Append(Pad(@, slot_index, FALSE), FALSE)]
  IN [B EXCEPT !.history.reserved =
                  Append(@, [slot_index |-> slot_index, range_end |-> range_end,
                             before |-> A.spill_slots_, after |-> B.spill_slots_])]

\* CompleteRange(Definition*, LiveRange*).
CompleteRangeForDefinition(A0, rid) ==
  LET A == Call("AssignSafepoints", <<A0, -1, rid>>)
      range == A.ranges[rid]
      B == IF IsInvalid(range.spill_slot) \/ ~HasStackIndex(range.spill_slot)
             THEN LET C == Call("AllocateSpillSlotFor", <<[A EXCEPT !.ranges[rid].spill_slot = NoLocation], rid>>)
                  IN IF range.representation = "kTagged" THEN Call("MarkAsObjectAtSafepoints", <<C, rid>>)
                     ELSE C
             ELSE A
      requires_stack == {k \in 1..Len(range.uses) :
                           Deref(B, range.uses[k].location_slot) = RequiresStack}
      D == FoldSeq(LAMBDA X, k : IF k \in requires_stack
                                   THEN ConvertUseTo(X, range.uses[k], B.ranges[rid].spill_slot)
                                   ELSE X,
                   B, [k \in 1..Len(range.uses) |-> k])
  IN IF range.has_uses_which_require_stack
       THEN [D EXCEPT !.ranges[rid].uses =
               SelectSeq(range.uses, LAMBDA u :
                 Deref(B, u.location_slot) # RequiresStack)]
       ELSE A

\* defn is [vreg, kind, location] of the initial definitions of block b.
ProcessInitialDefinition(A0, defn, rid, b) ==
  LET range_end == End(A0.ranges[rid])
      block_pos == A0.start_pos[b]
      location == IF defn.kind = "Parameter" THEN defn.location ELSE ConstantLocation(defn.vreg)
      A == [A0 EXCEPT !.ranges[rid].assigned_location = location]
      \* The value lives in a register at the block entry only.
      InRegister(B) ==
        Call("BlockLocation", <<
          Call("ConvertAllUses", <<
            IF End(B.ranges[rid]) > block_pos + 1
              THEN Call("SplitInitialDefinitionAt", <<B, rid, block_pos + 1, location.k>>)
              ELSE B,
            rid>>),
          location, block_pos, block_pos + 1>>)
      Converted(F, spill_slot) ==
        IF spill_slot.k = "StackSlot" /\ spill_slot.n <= first_local_from_fp
           /\ defn.kind # "Constant"
          THEN Call("MarkAsObjectAtSafepoints", <<
                 Call("AllocateSpillSlotForInitialDefinition", <<F, StackIndex(spill_slot), range_end>>), rid>>)
          ELSE F
      Convert(F) == Converted(F, F.ranges[rid].spill_slot)
      \* The value is split before its first register-beneficial use.
      Beneficial(C, D, use) ==
        Convert(Call("ConvertAllUses", <<
                  IF use # 0
                    THEN Call("CompleteRange", <<
                           Call("SplitBetween", <<D, rid, block_pos, C.ranges[rid].uses[use].pos>>),
                           Call("SplitBetweenResult", <<D, rid, block_pos, C.ranges[rid].uses[use].pos>>),
                           RegisterKindForResult(defn.vreg)>>)
                    ELSE D,
                  rid>>))
      OnStack(C) ==
        Beneficial(C, Call("RememberRegisterBeneficialUse", <<C, rid, block_pos>>),
                   Call("FirstRegisterBeneficialUse", <<C, C.ranges[rid], block_pos>>))
      Completed(B) == OnStack([B EXCEPT !.ranges[rid] = Initialize(@)])
  IN IF defn.kind = "Parameter" /\ IsMachineRegister(location)
       THEN InRegister(Call("CompleteRangeForDefinition", <<A, rid>>))
       ELSE Completed(Call("CompleteRangeForDefinition", <<
                        [A EXCEPT !.ranges[rid].spill_slot = location], rid>>))

\* The initial definitions of block b, each defined at the block entry over
\* the interval [start, to).
InitialDefinitions(A, b, to) ==
  FoldSeq(LAMBDA X, defn :
            LET Y == OnLiveRange(X, defn.vreg, LAMBDA r :
                       DefineAt(Call("AddUseInterval", <<r, X.start_pos[b], to>>), X.start_pos[b]))
            IN Call("ProcessInitialDefinition", <<Y, defn, Y.live_ranges_[defn.vreg], b>>),
          A, Blocks[b].defs)

\* The initial definitions of the catch entry b, each defined at the block
\* entry.
CatchEntryDefinitions(A, b) ==
  FoldSeq(LAMBDA X, defn :
            LET Y == OnLiveRange(X, defn.vreg, LAMBDA r : DefineAt(r, X.start_pos[b]))
            IN Call("ProcessInitialDefinition", <<Y, defn, Y.live_ranges_[defn.vreg], b>>),
          A, Blocks[b].defs)

\* The rest of the loop body of BuildLiveRanges once the instructions of the
\* block are processed.
EndBlock(A, b) ==
  LET loop == Blocks[b].loop
      Mark(X, v) ==
        LET Y == Call("GetLiveRange", <<X, v>>) IN
        IF HasOnlyUnconstrainedUsesInLoop(Y, Y.ranges[Y.live_ranges_[v]], Call("ExtraLoopInfo", <<Y, loop>>).end)
          THEN [Y EXCEPT !.ranges[Y.live_ranges_[v]].only_any_loops = @ \cup {loop}]
          ELSE Y
      B == IF Blocks[b].header
             THEN FoldSeq(Mark, [A EXCEPT !.cursor.interference = 0],
                          Ascending(A.liveness_.live_in[b]))
             ELSE A
      C == IF IsJoinEntry(b) THEN Call("ConnectIncomingPhiMoves", <<B, b>>)
           ELSE IF IsCatchBlockEntryBlock(b)
             THEN Call("CatchEntryDefinitions", <<[B EXCEPT !.safepoints_ = Append(@, B.start_pos[b])], b>>)
           ELSE IF IsFunctionEntry(b) THEN Call("InitialDefinitions", <<B, b, B.start_pos[b] + 2>>)
           ELSE B
  IN [C EXCEPT !.cursor.x = b - 1, !.cursor.i = -1]

\* Incoming parameters and constants of the graph entry.
GraphEntryDefinitions(A) == Call("InitialDefinitions", <<A, 1, A.end_pos[1]>>)

(***************************************************************************)
(* AllocateUnallocatedRanges.                                              *)
(***************************************************************************)
PrepareForAllocation(A, register_kind, number_of_registers, unallocated, blocking_ranges, blocked_registers) ==
  LET regs == 0..(number_of_registers - 1)
      B == [A EXCEPT !.register_kind_ = register_kind,
                     !.blocked_registers_ = blocked_registers,
                     !.unallocated_ = @ \o unallocated,
                     \* history.queued: the ranges that were on the worklist.
                     !.history.queued = @ \cup SeqToSet(unallocated),
                     !.registers_ = [reg \in regs |->
                        IF blocking_ranges[reg] # 0 THEN <<blocking_ranges[reg]>> ELSE <<>>]]
  IN [B EXCEPT !.ranges = [rid \in 1..Len(@) |->
        IF \E reg \in regs : blocking_ranges[reg] = rid THEN Initialize(@[rid]) ELSE @[rid]]]

RECURSIVE FindCoverFrom(_, _, _)
FindCoverFrom(rs, rid, pos) ==
  IF rid = 0 THEN 0
  ELSE IF CanCover(rs[rid], pos) THEN rid
  ELSE FindCoverFrom(rs, rs[rid].next_sibling, pos)

\* FindCover: 0 where the code reaches UNREACHABLE().
FindCover(A, parent, pos) == FindCoverFrom(A.ranges, parent, pos)

TargetLocationIsSpillSlot(A, range, target) ==
  A.ranges[A.live_ranges_[range.vreg]].spill_slot = target

\* AllocateUnallocatedRanges that spills and evicts in intrinsic mode too.
SpillInIntrinsicMode(A, rid) == Call("AllocateAnyRegister", <<A, rid>>)

\* AllocateUnallocatedRanges when AllocateFreeRegister returned false: in
\* intrinsic mode UNREACHABLE(), recorded in history.fatal.
NoFreeRegister(A, rid) ==
  IF intrinsic_mode_ THEN [A EXCEPT !.history.fatal = TRUE]
  ELSE Call("AllocateAnyRegister", <<A, rid>>)

\* What a call of AllocateFreeRegister on range rid can read and write of the
\* range, the worklist, the per-register lists and the location slots.
AllocationFrame(A, rid) ==
  [intervals |-> A.ranges[rid].intervals, uses |-> A.ranges[rid].uses,
   assigned_location |-> A.ranges[rid].assigned_location,
   unallocated_ |-> A.unallocated_, registers_ |-> A.registers_, slots |-> A.slots]

\* AllocateFreeRegister(unallocated) as it is called: [found, A] is what it
\* returns and the state it leaves.  history.free_register records the call:
\* the range, its first hint, the blocked registers, the first intersection
\* with each register, the candidate, and the frame before and after.
CallAllocateFreeRegister(A, rid) ==
  LET found == Call("FreeRegisterFound", <<A, rid>>)
      B == IF found THEN Call("AllocateFreeRegister", <<A, rid>>) ELSE A
      best == Call("FreeRegisterCandidate", <<A, rid>>)
  IN [found |-> found,
      A |-> [B EXCEPT !.history.free_register =
               Append(@, [vreg |-> A.ranges[rid].vreg, start |-> Start(A.ranges[rid]),
                          hint |-> Call("FirstHint", <<A, A.ranges[rid]>>),
                          blocked |-> A.blocked_registers_,
                          intersection |->
                             [reg \in 0..(NumberOfRegisters(A) - 1) |->
                                Call("FirstIntersectionWithAllocated", <<A, reg, A.ranges[rid]>>)],
                          found |-> found, candidate |-> best.candidate,
                          free_until |-> best.free_until,
                          assigned |-> B.ranges[rid].assigned_location,
                          before |-> AllocationFrame(A, rid),
                          after |-> AllocationFrame(B, rid)])]]

\* A turn of the loop that takes the first range of the worklist, not the last.
AllocateFirstRange(A0) ==
  LET rid == A0.unallocated_[1]
      A == [A0 EXCEPT !.unallocated_ = SubSeq(@, 2, Len(@))]
      B == Call("AdvanceActiveIntervals", <<A, Start(A.ranges[rid])>>)
      free == CallAllocateFreeRegister(B, rid)
  IN IF free.found THEN free.A ELSE Call("NoFreeRegister", <<free.A, rid>>)

\* One turn of the loop of AllocateUnallocatedRanges.
AllocateRange(A0) ==
  LET rid == A0.unallocated_[Len(A0.unallocated_)]
      A == [A0 EXCEPT !.unallocated_ = SubSeq(@, 1, Len(@) - 1)]
      B == Call("AdvanceActiveIntervals", <<A, Start(A.ranges[rid])>>)
      free == CallAllocateFreeRegister(B, rid)
  IN IF free.found THEN free.A ELSE Call("NoFreeRegister", <<free.A, rid>>)

\* The catch blocks of the try entries and the pass over their live-in values.
CatchTargets == {b \in BlockIds : IsCatchBlockEntryBlock(b)}

\* The registers that carry the exception and the stack trace into a catch
\* block.  The catch entries of the graphs below define neither of the two
\* parameters, and the two registers are machine registers outside the
\* register file kept here.
kExceptionObjectReg == kNumberOfCpuRegisters
kStackTraceObjectReg == kNumberOfCpuRegisters + 1
LocationExceptionLocation == RegisterLocation(kExceptionObjectReg)
LocationStackTraceLocation == RegisterLocation(kStackTraceObjectReg)

\* AllocateUnallocatedRanges without the pass over the catch entries.
SkipCatchEntrySpillSlots(A) == A

EnsureCatchEntrySpillSlots(A) ==
  LET One(X, bv) ==
        LET rid == X.live_ranges_[bv[2]]
            dst_cover == Call("FindCover", <<X, rid, X.start_pos[bv[1]]>>)
            dst == X.ranges[dst_cover].assigned_location
        IN IF dst_cover = 0 THEN [X EXCEPT !.history.fatal = TRUE]
           ELSE IF TargetLocationIsSpillSlot(X, X.ranges[dst_cover], dst) THEN X
           ELSE IF dst = LocationExceptionLocation \/ dst = LocationStackTraceLocation THEN X
           ELSE IF IsMachineRegister(dst) /\ IsInvalid(X.ranges[rid].spill_slot)
             THEN Call("AllocateSpillSlotFor", <<X, rid>>)
           ELSE X
      RECURSIVE Pairs(_)
      Pairs(bs) == IF bs = <<>> THEN <<>>
                   ELSE [k \in 1..Cardinality(A.liveness_.live_in[Head(bs)]) |->
                           <<Head(bs), Ascending(A.liveness_.live_in[Head(bs)])[k]>>]
                        \o Pairs(Tail(bs))
  IN FoldSeq(One, A, Pairs(Ascending(CatchTargets)))

FinishAllocation(A) == Call("EnsureCatchEntrySpillSlots", <<Call("AdvanceActiveIntervals", <<A, kMaxPosition>>)>>)

(***************************************************************************)
(* ResolveControlFlow.                                                     *)
(***************************************************************************)
\* ParallelMoveInstr::AddMove on the parallel move pm.
AddMove(A, pm, dest, src) ==
  LET m == Len(A.moves) + 1 IN
  [A EXCEPT !.moves = Append(@, MoveOperands(pm)),
            !.slots = @ @@ (DestSlot(m) :> dest) @@ (SrcSlot(m) :> src)]

\* block->GetParallelMove() and goto->GetParallelMove().
EntryParallelMove(b) == ParallelMove("entry", b)
GotoParallelMove(b) == ParallelMove("goto", b)

AreLocationsAllTheSame(locs) == \A j \in 2..Len(locs) : locs[j] = locs[1]

\* An edge resolution that drops the move instead of adding it to a parallel
\* move of the edge.
DropMoveOnEdge(A, succ, pred, move) == A

EmitMoveOnEdge(A, succ, pred, move) ==
  IF LastInstruction(pred).op = "Goto" /\ ~IsGraphEntry(pred)
    THEN Call("AddMove", <<A, GotoParallelMove(pred), move.dest, move.src>>)
    ELSE Call("AddMove", <<A, EntryParallelMove(succ), move.dest, move.src>>)

\* Linear control flow between the siblings of one value.
RECURSIVE ConnectSiblings(_, _)
ConnectSiblings(A, rid) ==
  LET range == A.ranges[rid]
      sid == range.next_sibling
      sibling == A.ranges[sid]
      constant_to_catch_block ==
        IsCatchBlockEntry(A, Start(sibling)) /\ IsConstant(range.assigned_location)
      connect ==
        /\ (End(range) = Start(sibling) \/ constant_to_catch_block)
        /\ ~TargetLocationIsSpillSlot(A, range, sibling.assigned_location)
        /\ range.assigned_location # sibling.assigned_location
        /\ (~IsBlockEntry(A, End(range)) \/ constant_to_catch_block)
  IN IF sid = 0 THEN A
     ELSE Call("ConnectSiblings", <<
            IF connect
              THEN Call("AddMoveAt", <<A, Start(sibling)
                                  + (IF IsCatchBlockEntry(A, Start(sibling)) THEN 1 ELSE 0),
                             sibling.assigned_location, range.assigned_location>>)
              ELSE A,
            sid>>)

\* A resolution that leaves the siblings of the values unconnected.
LeaveSiblingsUnconnected(A) == A

ResolveLinear(A) ==
  FoldSeq(LAMBDA X, vreg : IF X.live_ranges_[vreg] = 0 THEN X
                           ELSE Call("ConnectSiblings", <<X, X.live_ranges_[vreg]>>),
          A, Ascending(DOMAIN A.live_ranges_))

\* MoveOperands::IsRedundant of the move with index m.
IsRedundant(A, m) ==
  IsInvalid(A.slots[SrcSlot(m)]) \/ A.slots[SrcSlot(m)] = A.slots[DestSlot(m)]

\* Whether a predecessor overwrites the source of the pending move.
BlockedByPredecessor(A, block, src) ==
  \E p \in 1..Len(Blocks[block].preds) :
     \E m \in 1..Len(A.moves) :
        /\ A.moves[m].pm = GotoParallelMove(Blocks[block].preds[p])
        /\ ~IsRedundant(A, m)
        /\ A.slots[DestSlot(m)] = src

\* The pending moves that no predecessor blocks, whatever blocked pending
\* moves write.
BlockedByPredecessorsOnly(pending, can_emit) == can_emit

RECURSIVE PropagateBlocked(_, _)
PropagateBlocked(pending, can_emit) ==
  LET next == {j \in can_emit :
                 ~\E k \in (1..Len(pending)) \ can_emit : pending[k].dest = pending[j].src}
  IN IF next = can_emit THEN can_emit ELSE PropagateBlocked(pending, next)

\* The moves of all parallel moves with their operands.
MovesWithOperands(A) ==
  [m \in 1..Len(A.moves) |->
     [pm |-> A.moves[m].pm, dest |-> A.slots[DestSlot(m)], src |-> A.slots[SrcSlot(m)]]]

\* history.pending_moves: the pending moves of the block and the moves of the
\* parallel moves before and after the pending ones were emitted.
EmitPending(A, block, pending) ==
  LET direct == {j \in 1..Len(pending) : ~BlockedByPredecessor(A, block, pending[j].src)}
      can_emit == IF direct = 1..Len(pending) THEN direct ELSE PropagateBlocked(pending, direct)
      B == FoldSeq(LAMBDA X, j :
               IF j \in can_emit
                 THEN Call("AddMove", <<X, EntryParallelMove(block), pending[j].dest, pending[j].src>>)
                 ELSE FoldSeq(LAMBDA Y, pred : Call("EmitMoveOnEdge", <<Y, block, pred, pending[j]>>),
                              X, Blocks[block].preds),
             A, [j \in 1..Len(pending) |-> j])
  IN [B EXCEPT !.history.pending_moves =
         Append(@, [block |-> block, pending |-> pending,
                    before |-> MovesWithOperands(A), after |-> MovesWithOperands(B)])]

\* One live-in value of a block; acc is [A, pending].
ResolveLiveIn(acc, block, vreg) ==
  LET A == acc.A
      rid == A.live_ranges_[vreg]
      range == A.ranges[rid]
      is_catch_entry == IsCatchBlockEntryBlock(block)
      dst_cover == Call("FindCover", <<A, rid, A.start_pos[block]>>)
      dst == A.ranges[dst_cover].assigned_location
      preds == Blocks[block].preds
      src_cover == [j \in 1..Len(preds) |-> Call("FindCover", <<A, rid, A.end_pos[preds[j]] - 1>>)]
      src_locs == [j \in 1..Len(preds) |-> A.ranges[src_cover[j]].assigned_location]
      parent_slot == A.ranges[rid].spill_slot
  IN IF range.next_sibling = 0 /\ ~is_catch_entry THEN acc
     ELSE IF dst_cover = 0 THEN [acc EXCEPT !.A.history.fatal = TRUE]
     ELSE IF TargetLocationIsSpillSlot(A, range, dst) THEN acc
     ELSE IF is_catch_entry
       THEN (IF dst # LocationExceptionLocation /\ dst # LocationStackTraceLocation
                  /\ IsMachineRegister(dst) /\ dst # parent_slot
               THEN [acc EXCEPT !.A = Call("AddMove", <<A, EntryParallelMove(block), dst, parent_slot>>)]
               ELSE acc)
     ELSE IF \E j \in 1..Len(preds) : src_cover[j] = 0
       THEN [acc EXCEPT !.A.history.fatal = TRUE]
     ELSE IF Len(src_locs) > 1 /\ AreLocationsAllTheSame(src_locs)
       THEN (IF dst # src_locs[1]
               THEN [acc EXCEPT !.pending = Append(@, [dest |-> dst, src |-> src_locs[1]])]
               ELSE acc)
     ELSE [acc EXCEPT !.A =
             FoldSeq(LAMBDA X, j :
                       IF dst = src_locs[j] THEN X
                       ELSE Call("EmitMoveOnEdge", <<X, block, preds[j], [dest |-> dst, src |-> src_locs[j]]>>),
                     A, [j \in 1..Len(preds) |-> j])]

ResolveBlock(A, block) ==
  LET acc == FoldSeq(LAMBDA X, vreg : Call("ResolveLiveIn", <<X, block, vreg>>),
                     [A |-> A, pending |-> <<>>], Ascending(A.liveness_.live_in[block]))
  IN IF acc.pending # <<>> THEN Call("EmitPending", <<acc.A, block, acc.pending>>) ELSE acc.A

\* No eager spill of the range.
SpillNowhere(A, rid) == A

\* Eagerly spill values.
EagerSpill(A, rid) ==
  LET range == A.ranges[rid] IN
  IF range.assigned_location = range.spill_slot THEN A
  ELSE IF Start(range) = 0
    THEN FoldSeq(LAMBDA X, block :
                   IF IsFunctionEntry(block)
                     THEN Call("AddMoveAt", <<X, X.start_pos[block] + 1, range.spill_slot,
                                    range.assigned_location>>)
                     ELSE X,
                 A, Blocks[1].succs)
  ELSE Call("AddMoveAt", <<A, Start(range) + 1, range.spill_slot, range.assigned_location>>)

ResolveControlFlow(A) ==
  LET B == Call("ResolveLinear", <<A>>)
      C == FoldSeq(LAMBDA X, block : ResolveBlock(X, block), B,
                   [k \in 1..(BlockCount - 1) |-> k + 1])
  IN FoldSeq(LAMBDA X, rid : Call("EagerSpill", <<X, rid>>), C, C.spilled_)

\* AllocateRegisters between BuildLiveRanges and the allocation of the CPU
\* registers: the graph entry is the last block of the postorder walk.
PrepareCpu(A0) ==
  LET A == Call("GraphEntryDefinitions", <<A0>>) IN
  Call("PrepareForAllocation", <<A, "Register", kNumberOfCpuRegisters, A.unallocated_cpu_,
                       A.cpu_regs_, blocked_cpu_registers_>>)

\* AllocateRegisters between the two passes: the CPU spill slots are counted
\* and the spill slot tables cleared.
PrepareFpu(A0) ==
  LET A == Call("FinishAllocation", <<A0>>)
      B == [A EXCEPT !.cpu_spill_slot_count_ =
                        Maximum(Len(A.spill_slots_), flow_graph_.fixed_slot_count),
                     !.spill_slots_ = <<>>, !.quad_spill_slots_ = <<>>,
                     !.untagged_spill_slots_ = <<>>]
  IN Call("PrepareForAllocation", <<B, "FpuRegister", kNumberOfFpuRegisters, B.unallocated_fpu_,
                          B.fpu_regs_, blocked_fpu_registers_>>)

\* AllocateRegisters after the allocation of the FPU registers.
SetSpillSlotCount(A) ==
  [A EXCEPT !.graph_entry_.spill_slot_count =
      A.cpu_spill_slot_count_ + Len(A.spill_slots_) * kDoubleSpillFactor
        + flow_graph_.max_argument_slot_count]

\* The instructions of the blocks in block order.
RECURSIVE InstructionsFrom(_)
InstructionsFrom(b) ==
  IF b > BlockCount THEN <<>> ELSE Body(b) \o InstructionsFrom(b + 1)

\* The loop of RemoveFrameIfNotNeeded over the instructions (a build for a
\* target that keeps the return address on the stack).
NeedsFrameForCalls ==
  LET instructions == InstructionsFrom(1)
      calls == {k \in 1..Len(instructions) : instructions[k].can_call}
  IN \/ \E k \in calls : ~instructions[k].call_on_shared_slow_path
     \/ Cardinality(calls) > 1

\* fix_location_for of RemoveFrameIfNotNeeded.
FixLocationFor(A, param) ==
  LET fp_relative == param.location
      sp_relative == ToEntrySpRelative(fp_relative)
      One(X, rid) ==
        IF X.ranges[rid].assigned_location = fp_relative
          THEN FoldSeq(LAMBDA Y, use : Written(Store(Y, use.location_slot, sp_relative),
                                               use.location_slot, "RemoveFrameIfNotNeeded"),
                       [X EXCEPT !.ranges[rid].assigned_location = sp_relative,
                                 !.ranges[rid].spill_slot = sp_relative],
                       X.ranges[rid].uses)
          ELSE X
  IN IF ~HasStackIndex(fp_relative) \/ ~IsFpRelative(fp_relative) THEN A
     ELSE FoldSeq(One, A, Siblings(A.ranges, A.live_ranges_[param.vreg]))

MarkFrameless(A) == [A EXCEPT !.graph_entry_.frameless = TRUE]

\* RemoveFrameIfNotNeeded that looks at no instruction.
RemoveFrameWhateverCalls(A, precompiled_mode, makes_copy_of_parameters) ==
  IF A.graph_entry_.spill_slot_count > 0 THEN A ELSE MarkFrameless(A)
RemoveFrameIfNotNeeded(A, precompiled_mode, makes_copy_of_parameters) ==
  IF intrinsic_mode_ THEN MarkFrameless(A)
  ELSE IF ~precompiled_mode THEN A
  ELSE IF makes_copy_of_parameters THEN A
  ELSE IF A.graph_entry_.spill_slot_count > 0 THEN A
  ELSE IF NeedsFrameForCalls THEN A
  ELSE LET parameters ==
             [k \in 1..Len(Blocks[1].succs) |->
                IF Blocks[Blocks[1].succs[k]].kind = "FunctionEntry"
                  THEN SelectSeq(Blocks[Blocks[1].succs[k]].defs,
                                 LAMBDA d : d.kind = "Parameter")
                  ELSE <<>>]
       IN FoldSeq(LAMBDA X, ps : FoldSeq(FixLocationFor, X, ps), MarkFrameless(A), parameters)

Call(f, a) ==
  CASE f = "SplitAt" -> SplitAt(a[1], a[2], a[3])
    [] f = "SplitBetween" -> SplitBetween(a[1], a[2], a[3], a[4])
    [] f = "AllocateSpillSlotFor" -> AllocateSpillSlotFor(a[1], a[2])
    [] f = "Spill" -> Spill(a[1], a[2])
    [] f = "SpillBetween" -> SpillBetween(a[1], a[2], a[3], a[4])
    [] f = "SpillAfter" -> SpillAfter(a[1], a[2], a[3])
    [] f = "CompleteRangeForDefinition" -> CompleteRangeForDefinition(a[1], a[2])
    [] f = "ProcessInitialDefinition" -> ProcessInitialDefinition(a[1], a[2], a[3], a[4])
    [] f = "ProcessOneInput" -> ProcessOneInput(a[1], a[2], a[3], a[4], a[5])
    [] f = "ProcessOneOutput" -> ProcessOneOutput(a[1], a[2], a[3], a[4], a[5], a[6], a[7])
    [] f = "ProcessOneInstruction" -> ProcessOneInstruction(a[1], a[2], a[3])
    [] f = "EvictIntersection" -> EvictIntersection(a[1], a[2], a[3])
    [] f = "AssignNonFreeRegister" -> AssignNonFreeRegister(a[1], a[2], a[3])
    [] f = "AllocateAnyRegister" -> AllocateAnyRegister(a[1], a[2])
    [] f = "AllocateFreeRegister" -> AllocateFreeRegister(a[1], a[2])
    [] f = "UpdateFreeUntil" -> UpdateFreeUntil(a[1], a[2], a[3], a[4])
    [] f = "SplitInitialDefinitionAt" -> SplitInitialDefinitionAt(a[1], a[2], a[3], a[4])
    [] f = "ConnectOutgoingPhiMoves" -> ConnectOutgoingPhiMoves(a[1], a[2])
    [] f = "ConnectIncomingPhiMoves" -> ConnectIncomingPhiMoves(a[1], a[2])
    [] f = "ResolveBlock" -> ResolveBlock(a[1], a[2])
    [] f = "EnsureCatchEntrySpillSlots" -> EnsureCatchEntrySpillSlots(a[1])
    [] f = "CompleteRange" -> CompleteRange(a[1], a[2], a[3])
    [] f = "ConvertAllUses" -> ConvertAllUses(a[1], a[2])
    [] f = "MarkAsObjectAtSafepoints" -> MarkAsObjectAtSafepoints(a[1], a[2])
    [] f = "BlockLocation" -> BlockLocation(a[1], a[2], a[3], a[4])
    [] f = "AddMoveAt" -> AddMoveAt(a[1], a[2], a[3], a[4])
    [] f = "AssignSafepoints" -> AssignSafepoints(a[1], a[2], a[3])
    [] f = "AllocateSpillSlotForInitialDefinition" -> AllocateSpillSlotForInitialDefinition(a[1], a[2], a[3])
    [] f = "AdvanceActiveIntervals" -> AdvanceActiveIntervals(a[1], a[2])
    [] f = "EmitMoveOnEdge" -> EmitMoveOnEdge(a[1], a[2], a[3], a[4])
    [] f = "AddUse" -> AddUse(a[1], a[2], a[3])
    [] f = "AddHintedUse" -> AddHintedUse(a[1], a[2], a[3], a[4])
    [] f = "SplitBetweenResult" -> SplitBetweenResult(a[1], a[2], a[3], a[4])
    [] f = "SplitBetweenPos" -> SplitBetweenPos(a[1], a[2], a[3])
    [] f = "FreeRegisterCandidate" -> FreeRegisterCandidate(a[1], a[2])
    [] f = "FreeRegisterFound" -> FreeRegisterFound(a[1], a[2])
    [] f = "InitialDefinitions" -> InitialDefinitions(a[1], a[2], a[3])
    [] f = "CatchEntryDefinitions" -> CatchEntryDefinitions(a[1], a[2])
    [] f = "AddToUnallocated" -> AddToUnallocated(a[1], a[2])
    [] f = "AnyRegisterCandidate" -> AnyRegisterCandidate(a[1], a[2], a[3])
    [] f = "EvictFrom" -> EvictFrom(a[1], a[2], a[3], a[4])
    [] f = "UpdateFreeUntilFrom" -> UpdateFreeUntilFrom(a[1], a[2], a[3], a[4], a[5])
    [] f = "RememberRegisterUse" -> RememberRegisterUse(a[1], a[2], a[3])
    [] f = "RememberRegisterBeneficialUse" -> RememberRegisterBeneficialUse(a[1], a[2], a[3])
    [] f = "FirstInterferingUse" -> FirstInterferingUse(a[1], a[2], a[3])
    [] f = "FirstRegisterUse" -> FirstRegisterUse(a[1], a[2], a[3])
    [] f = "FirstRegisterBeneficialUse" -> FirstRegisterBeneficialUse(a[1], a[2], a[3])
    [] f = "HasCheapEvictionCandidate" -> HasCheapEvictionCandidate(a[1], a[2])
    [] f = "ScanForLater" -> ScanForLater(a[1], a[2], a[3], a[4])
    [] f = "ScanForBackedge" -> ScanForBackedge(a[1], a[2], a[3], a[4], a[5])
    [] f = "UsedOnBackedge" -> UsedOnBackedge(a[1], a[2], a[3])
    [] f = "FirstIntersectionWithAllocated" -> FirstIntersectionWithAllocated(a[1], a[2], a[3])
    [] f = "GetLiveRange" -> GetLiveRange(a[1], a[2])
    [] f = "AssignSafepointsFrom" -> AssignSafepointsFrom(a[1], a[2], a[3], a[4])
    [] f = "ConnectSiblings" -> ConnectSiblings(a[1], a[2])
    [] f = "ExtraLoopInfo" -> ExtraLoopInfo(a[1], a[2])
    [] f = "FirstIntersection" -> FirstIntersection(a[1], a[2], a[3], a[4])
    [] f = "AddUseInterval" -> AddUseInterval(a[1], a[2], a[3])
    [] f = "MakeLiveRangeForTemporary" -> MakeLiveRangeForTemporary(a[1])
    [] f = "FirstHint" -> FirstHint(a[1], a[2])
    [] f = "ResolveLiveIn" -> ResolveLiveIn(a[1], a[2], a[3])
    [] f = "EmitPending" -> EmitPending(a[1], a[2], a[3])
    [] f = "ResolveLinear" -> ResolveLinear(a[1])
    [] f = "EagerSpill" -> EagerSpill(a[1], a[2])
    [] f = "FindCover" -> FindCover(a[1], a[2], a[3])
    [] f = "AddMove" -> AddMove(a[1], a[2], a[3], a[4])
    [] f = "ResolveControlFlow" -> ResolveControlFlow(a[1])
    [] f = "BeginBlock" -> BeginBlock(a[1], a[2])
    [] f = "InstructionStep" -> InstructionStep(a[1], a[2], a[3])
    [] f = "EndBlock" -> EndBlock(a[1], a[2])
    [] f = "GraphEntryDefinitions" -> GraphEntryDefinitions(a[1])
    [] f = "PrepareForAllocation" -> PrepareForAllocation(a[1], a[2], a[3], a[4], a[5], a[6])
    [] f = "AllocateRange" -> AllocateRange(a[1])
    [] f = "NoFreeRegister" -> NoFreeRegister(a[1], a[2])
    [] f = "RemoveFrameIfNotNeeded" -> RemoveFrameIfNotNeeded(a[1], a[2], a[3])
    [] f = "SetSpillSlotCount" -> SetSpillSlotCount(a[1])
    [] f = "FinishAllocation" -> FinishAllocation(a[1])
    [] f = "PrepareCpu" -> PrepareCpu(a[1])
    [] f = "PrepareFpu" -> PrepareFpu(a[1])

(***************************************************************************)
(* The flow graphs given to the allocator.  Each family is a control flow  *)
(* skeleton whose location summaries, call kinds and representations vary. *)
(***************************************************************************)
MaxExtraLive == 1

In(v, loc) == [vreg |-> v, loc |-> loc]

\* call: "none", "slow" (can_call on a slow path), "shared" (can_call on a
\* shared slow path), "call" (always_calls), "safe" (always_calls and
\* callee_safe_call).
Instr(op, vreg, out, ins, temps, env, call) ==
  [op |-> op, vreg |-> vreg, out |-> out, ins |-> ins, temps |-> temps, env |-> env,
   always_calls |-> call \in {"call", "safe"}, callee_safe_call |-> call = "safe",
   can_call |-> call # "none", may_throw |-> call # "none",
   call_on_shared_slow_path |-> call = "shared"]

Def(vreg, out, ins) == Instr("Op", vreg, out, ins, <<>>, <<>>, "none")
\* A ConstantInstr in the body of a block.
ConstantDef(vreg) == Instr("Constant", vreg, RequiresRegister, <<>>, <<>>, <<>>, "none")
Goto == Instr("Goto", -1, NoLocation, <<>>, <<>>, <<>>, "none")
TryEntry == Instr("TryEntry", -1, NoLocation, <<>>, <<>>, <<>>, "none")
Branch(v) == Instr("Branch", -1, NoLocation, <<In(v, RequiresRegister)>>, <<>>, <<>>, "none")
Return(v) == Instr("Return", -1, NoLocation, <<In(v, RegisterLocation(0))>>, <<>>, <<>>, "none")
\* A use of the values vs that constrains nothing.
Keep(vs) == Instr("Op", -1, NoLocation, [k \in 1..Len(vs) |-> In(vs[k], AnyLocation)],
                  <<>>, <<>>, "none")

Block(kind, preds, succs, phis, defs, body) ==
  [kind |-> kind, preds |-> preds, succs |-> succs, phis |-> phis, defs |-> defs,
   body |-> body, try_catch |-> 0, loop |-> 0, header |-> FALSE, back_edge |-> FALSE]

Parameter(vreg, location) == [vreg |-> vreg, kind |-> "Parameter", location |-> location]
Constant(vreg) == [vreg |-> vreg, kind |-> "Constant", location |-> NoLocation]

\* The calls of the graphs below pass their arguments in registers:
\* max_argument_slot_count is 0.
FlowGraph(blocks, reps, loops, fixed_slot_count) ==
  [blocks |-> blocks, value_representations |-> reps, loops |-> loops,
   fixed_slot_count |-> fixed_slot_count, max_argument_slot_count |-> 0]

\* The first n of the values vs, to be kept live.
Extra(vs, n) == SubSeq(vs, 1, IF n < Len(vs) THEN n ELSE Len(vs))
ExtraCounts == 0..(MaxExtraLive + 1)

GraphEntry(defs) == Block("GraphEntry", <<>>, <<2>>, <<>>, defs, <<>>)

\* Where a parameter arrives: in a register, in the caller's frame, or in the
\* frame slot of a local.
ParameterLocations == {RegisterLocation(1), StackSlot(2), StackSlot(first_local_from_fp)}

\* The middle instruction of the straight-line family: it reads b.
Middle(call, b) ==
  CASE call = "call" -> Instr("Call", -1, NoLocation, <<In(b, RegisterLocation(0))>>, <<>>, <<>>, call)
    [] call = "slow" -> Instr("Check", -1, NoLocation, <<In(b, RequiresRegister)>>, <<>>, <<>>, call)
    [] call = "safe" -> Instr("Leaf", -1, NoLocation, <<In(b, AnyLocation)>>, <<>>, <<>>, call)
    [] OTHER -> Instr("Op", -1, NoLocation, <<In(b, PrefersRegister)>>, <<>>, <<>>, call)

CallKinds == {"none", "slow", "call", "safe"}

\* v1: constant, v2: parameter, v3 = f(v2) or f(v2, v2) with the locations
\* x1, v4 = g(v2), middle(v4), v5 = h(v3, v4), return v5; the extra values
\* stay live up to the return.
Straight(ploc, x1, call, x2, x4, out, temps, extra) ==
  FlowGraph(
    <<GraphEntry(<<Constant(1)>>),
      Block("FunctionEntry", <<1>>, <<>>, <<>>, <<Parameter(2, ploc)>>,
        <<Def(3, RequiresRegister, [k \in 1..Len(x1) |-> In(2, x1[k])]),
          Instr("Op", 4, RequiresRegister, <<In(2, AnyLocation), In(1, AnyLocation)>>,
                <<>>, <<3>>, "none"),
          Middle(call, 4),
          Instr("Op", 5, out, <<In(3, x2), In(4, x4)>>, temps, <<>>, "none"),
          Keep(Extra(<<2, 1>>, extra)),
          Return(5)>>)>>,
    <<"kTagged", "kTagged", "kTagged", "kTagged", "kTagged">>, <<>>, 0)

StraightGraphs ==
  {Straight(ploc, x1, call, x2, x4, out, temps, extra) :
     ploc \in ParameterLocations,
     x1 \in {<<AnyLocation>>, <<RequiresRegister>>, <<WritableRegister>>,
             <<RegisterLocation(1), AnyLocation>>},
     call \in CallKinds,
     x2 \in {AnyLocation, RequiresRegister, PrefersRegister},
     x4 \in {AnyLocation, RequiresRegister},
     out \in {RequiresRegister, SameAsFirstInput},
     temps \in {<<>>, <<RequiresRegister>>},
     extra \in ExtraCounts}

InLoop(block, loop, header, back_edge) ==
  [block EXCEPT !.loop = loop, !.header = header, !.back_edge = back_edge]
InTry(block, catch) == [block EXCEPT !.try_catch = catch]
Phi(vreg, inputs) == [vreg |-> vreg, inputs |-> inputs]
Tagged(n) == [k \in 1..n |-> "kTagged"]

\* B2: v3, v4, branch on v3.  B3: v5 = f(v3), middle(v4).  B4: v6 = g(v4),
\* middle(v3).  B5: v7 = phi(v5, second), v8 = h(v7, v3, v4), return v8.
Diamond(ploc, k3, k4, second, x, y, extra) ==
  FlowGraph(
    <<GraphEntry(<<Constant(1)>>),
      Block("FunctionEntry", <<1>>, <<3, 4>>, <<>>, <<Parameter(2, ploc)>>,
        <<Def(3, RequiresRegister, <<In(2, AnyLocation)>>),
          Def(4, RequiresRegister, <<In(2, AnyLocation)>>),
          Branch(3)>>),
      Block("TargetEntry", <<2>>, <<5>>, <<>>, <<>>,
        <<Def(5, RequiresRegister, <<In(3, RequiresRegister)>>), Middle(k3, 4), Goto>>),
      Block("TargetEntry", <<2>>, <<5>>, <<>>, <<>>,
        <<Def(6, RequiresRegister, <<In(4, x)>>), Middle(k4, 3), Goto>>),
      Block("JoinEntry", <<3, 4>>, <<>>, <<Phi(7, <<5, second>>)>>, <<>>,
        <<Def(8, RequiresRegister, <<In(7, RequiresRegister), In(3, AnyLocation), In(4, y)>>),
          Keep(Extra(<<2, 1>>, extra)),
          Return(8)>>)>>,
    Tagged(8), <<>>, 0)

DiamondGraphs ==
  {Diamond(ploc, k3, k4, second, x, y, extra) :
     ploc \in {RegisterLocation(1), StackSlot(2)},
     k3 \in CallKinds, k4 \in {"none", "call"}, second \in {6, 1},
     x \in {AnyLocation, RequiresRegister}, y \in {AnyLocation, RequiresRegister},
     extra \in ExtraCounts}

\* B2: v3 = f(v2).  B3 (loop header): v4 = phi(v3, v6), v5 = g(v4), branch.
\* B4 (back edge): middle(v5), v6 = h(v4, ...).  B5: return v4.
Loop(ploc, k, x, y, out, extra, inside) ==
  FlowGraph(
    <<GraphEntry(<<Constant(1)>>),
      Block("FunctionEntry", <<1>>, <<3>>, <<>>, <<Parameter(2, ploc)>>,
        <<Def(3, RequiresRegister, <<In(2, AnyLocation)>>), Goto>>),
      InLoop(Block("JoinEntry", <<2, 4>>, <<4, 5>>, <<Phi(4, <<3, 6>>)>>, <<>>,
               <<Def(5, RequiresRegister, <<In(4, x)>>), Branch(5)>>),
             1, TRUE, FALSE),
      InLoop(Block("TargetEntry", <<3>>, <<3>>, <<>>, <<>>,
               <<Middle(k, 5),
                 Def(6, out, <<In(4, y)>> \o (IF inside THEN <<In(2, AnyLocation)>> ELSE <<>>)),
                 Goto>>),
             1, FALSE, TRUE),
      Block("TargetEntry", <<3>>, <<>>, <<>>, <<>>,
        <<Keep(Extra(<<2, 1>>, extra)), Return(4)>>)>>,
    Tagged(6), <<[header |-> 3, outer |-> 0]>>, 0)

LoopGraphs ==
  {Loop(ploc, k, x, y, out, extra, inside) :
     ploc \in {RegisterLocation(1), StackSlot(2)},
     k \in CallKinds, x \in {AnyLocation, RequiresRegister},
     y \in {AnyLocation, RequiresRegister}, out \in {RequiresRegister, SameAsFirstInput},
     extra \in ExtraCounts, inside \in BOOLEAN}

\* B2: v3, v4, try entry.  B3 (try body): middle(v3) may throw, v5 = f(v3, v4).
\* B4 (catch): v6 = g(v4).  B5: v7 = phi(v5, v6), return v7.
TryCatch(ploc, k, x, x2, keep, extra, fixed) ==
  FlowGraph(
    <<GraphEntry(<<Constant(1)>>),
      Block("FunctionEntry", <<1>>, <<3, 4>>, <<>>, <<Parameter(2, ploc)>>,
        <<Def(3, RequiresRegister, <<In(2, x2)>>),
          Def(4, RequiresRegister, <<In(2, AnyLocation)>>),
          TryEntry>>),
      InTry(Block("TargetEntry", <<2>>, <<5>>, <<>>, <<>>,
              <<Middle(k, 3),
                Def(5, RequiresRegister, <<In(3, RequiresRegister), In(4, AnyLocation)>>),
                Goto>>), 4),
      Block("CatchBlockEntry", <<2>>, <<5>>, <<>>, <<>>,
        <<Def(6, RequiresRegister, <<In(4, x)>>),
          Keep(Extra(<<2, 1>>, extra) \o (IF keep THEN <<3>> ELSE <<>>)),
          Goto>>),
      Block("JoinEntry", <<3, 4>>, <<>>, <<Phi(7, <<5, 6>>)>>, <<>>, <<Return(7)>>)>>,
    Tagged(7), <<>>, fixed)

TryCatchGraphs ==
  {TryCatch(ploc, k, x, AnyLocation, keep, extra, fixed) :
     ploc \in {RegisterLocation(1), StackSlot(2)},
     k \in {"slow", "call", "safe"},
     x \in {AnyLocation, RequiresRegister, PrefersRegister},
     keep \in BOOLEAN, extra \in ExtraCounts, fixed \in 0..1}
  \cup {TryCatch(ploc, k, AnyLocation, RequiresStack, FALSE, 0, fixed) :
           ploc \in {RegisterLocation(1), StackSlot(2)},
           k \in {"slow", "call", "safe"}, fixed \in 0..1}

\* The graph of TryCatch with fixed_slot_count = 1 and the initial definition
\* v8 of the catch entry in the reserved slot; v4 is live into the catch
\* entry, the parameter v2 is not.
CatchParameter(ploc, k, x, extra) ==
  FlowGraph(
    <<GraphEntry(<<Constant(1)>>),
      Block("FunctionEntry", <<1>>, <<3, 4>>, <<>>, <<Parameter(2, ploc)>>,
        <<Def(3, RequiresRegister, <<In(2, AnyLocation)>>),
          Def(4, RequiresRegister, <<In(2, AnyLocation)>>),
          TryEntry>>),
      InTry(Block("TargetEntry", <<2>>, <<5>>, <<>>, <<>>,
              <<Middle(k, 3),
                Def(5, RequiresRegister, <<In(3, RequiresRegister), In(4, AnyLocation)>>),
                Goto>>), 4),
      Block("CatchBlockEntry", <<2>>, <<5>>, <<>>, <<Parameter(8, StackSlot(first_local_from_fp))>>,
        <<Def(6, RequiresRegister, <<In(8, x)>>),
          Keep(Extra(<<4, 1>>, extra)),
          Goto>>),
      Block("JoinEntry", <<3, 4>>, <<>>, <<Phi(7, <<5, 6>>)>>, <<>>, <<Return(7)>>)>>,
    Tagged(8), <<>>, 1)

CatchParameterGraphs ==
  {CatchParameter(ploc, k, x, extra) :
     ploc \in ParameterLocations, k \in {"slow", "call"},
     x \in {AnyLocation, RequiresRegister}, extra \in ExtraCounts}

\* Unboxed values: v3, v4 and the extra values v7, v8 are live across the
\* first call, v3 is dead when v5 = f(v4) is defined, v5 is live across the
\* second call; v6 = g(v4, v5) is tagged.
FpuRepresentations == {"kUnboxedDouble", "kUnboxedFloat32x4"}

Fpu(r3, r4, r5, call2, x, extra) ==
  FlowGraph(
    <<GraphEntry(<<Constant(1)>>),
      Block("FunctionEntry", <<1>>, <<>>, <<>>, <<Parameter(2, StackSlot(2))>>,
        <<Def(3, RequiresFpuRegister, <<In(2, AnyLocation)>>),
          Def(4, RequiresFpuRegister, <<In(2, AnyLocation)>>),
          Def(7, RequiresFpuRegister, <<In(2, AnyLocation)>>),
          Def(8, RequiresFpuRegister, <<In(2, AnyLocation)>>),
          Instr("Call", -1, NoLocation, <<In(2, AnyLocation)>>, <<>>, <<>>, "call"),
          Keep(<<3>>),
          Def(5, RequiresFpuRegister, <<In(4, RequiresFpuRegister)>>),
          Instr("Call", -1, NoLocation, <<In(2, AnyLocation)>>, <<>>, <<>>, call2),
          Def(6, RequiresRegister, <<In(4, RequiresFpuRegister), In(5, x)>>),
          Keep(Extra(<<7, 8>>, extra)),
          Return(6)>>)>>,
    <<"kTagged", "kTagged", r3, r4, r5, "kTagged", "kUnboxedDouble", "kUnboxedFloat32x4">>,
    <<>>, 0)

FpuGraphs ==
  {Fpu(r3, r4, r5, call2, x, extra) :
     r3 \in FpuRepresentations, r4 \in FpuRepresentations, r5 \in FpuRepresentations,
     call2 \in {"none", "slow", "call"},
     x \in {AnyLocation, RequiresFpuRegister, FpuRegisterLocation(0)},
     extra \in ExtraCounts}

\* A parameter of an unboxed floating-point representation that arrives in an
\* FPU register and has a use that must be on the stack; a tagged value v3 is
\* live across the call when gp holds.
FpParam(r2, gp) ==
  FlowGraph(
    <<GraphEntry(<<Constant(1)>>),
      Block("FunctionEntry", <<1>>, <<>>, <<>>, <<Parameter(2, FpuRegisterLocation(0))>>,
        <<Def(3, RequiresRegister, <<In(1, AnyLocation)>>),
          Instr("Op", -1, NoLocation, <<In(2, RequiresStack)>>, <<>>, <<>>, "none"),
          Instr("Call", -1, NoLocation, <<In(1, AnyLocation)>>, <<>>, <<>>, "call"),
          Keep(<<2>> \o (IF gp THEN <<3>> ELSE <<>>)),
          Return(1)>>)>>,
    <<"kTagged", r2, "kTagged">>, <<>>, 0)
FpParamGraphs == {FpParam(r2, gp) : r2 \in FpuRepresentations, gp \in BOOLEAN}

\* A try block with a call: the unboxed v4 is live across the call, and so is
\* the tagged v3 when gp holds; fixed slots are reserved for the catch entry.
MixedSpills(r4, gp, fixed) ==
  FlowGraph(
    <<GraphEntry(<<Constant(1)>>),
      Block("FunctionEntry", <<1>>, <<3, 4>>, <<>>, <<Parameter(2, StackSlot(2))>>,
        <<Def(3, RequiresRegister, <<In(2, AnyLocation)>>),
          Def(4, RequiresFpuRegister, <<In(2, AnyLocation)>>),
          TryEntry>>),
      InTry(Block("TargetEntry", <<2>>, <<5>>, <<>>, <<>>,
              <<Instr("Call", -1, NoLocation, <<In(2, AnyLocation)>>, <<>>, <<>>, "call"),
                Def(5, RequiresRegister,
                    <<In(4, RequiresFpuRegister)>>
                      \o (IF gp THEN <<In(3, RequiresRegister)>> ELSE <<>>)),
                Goto>>), 4),
      Block("CatchBlockEntry", <<2>>, <<5>>, <<>>, <<>>,
        <<Def(6, RequiresRegister, <<In(2, AnyLocation)>>), Goto>>),
      Block("JoinEntry", <<3, 4>>, <<>>, <<Phi(7, <<5, 6>>)>>, <<>>, <<Return(7)>>)>>,
    <<"kTagged", "kTagged", "kTagged", r4, "kTagged", "kTagged", "kTagged">>, <<>>, fixed)

MixedSpillsGraphs ==
  {MixedSpills(r4, gp, fixed) : r4 \in FpuRepresentations, gp \in BOOLEAN, fixed \in 0..2}

\* Fixed registers: v5 = f(v3, v4) reads v3 at the location fin, has the
\* output location out and the temporaries temps; v6 = g(v5, v4) reads v5 at
\* x5 right after its definition.
FixedRegisters(ploc, fin, out, temps, x5, extra) ==
  FlowGraph(
    <<GraphEntry(<<Constant(1)>>),
      Block("FunctionEntry", <<1>>, <<>>, <<>>, <<Parameter(2, ploc)>>,
        <<Def(3, RequiresRegister, <<In(2, AnyLocation)>>),
          Def(4, RequiresRegister, <<In(2, AnyLocation)>>),
          Instr("Op", 5, out, <<In(3, fin), In(4, AnyLocation)>>, temps, <<>>, "none"),
          Def(6, RequiresRegister, <<In(5, x5), In(4, AnyLocation)>>),
          Keep(Extra(<<3, 2>>, extra)),
          Return(6)>>)>>,
    Tagged(6), <<>>, 0)

FixedRegistersGraphs ==
  {FixedRegisters(ploc, fin, out, temps, x5, extra) :
     ploc \in {RegisterLocation(1), StackSlot(2)},
     fin \in {RegisterLocation(0), RequiresRegister, AnyLocation},
     out \in {RegisterLocation(0), RegisterLocation(1), RequiresRegister},
     temps \in {<<>>, <<RegisterLocation(1)>>},
     x5 \in {RegisterLocation(1), RequiresRegister, AnyLocation},
     extra \in ExtraCounts}

\* Word-sized values that are no object pointers: the parameter v2 is read by
\* v3 = f(v2) at the location x2 and is dead after it, v3 is live across a
\* call and dead before v4 = g(v1) is defined, v4 is live across the second
\* call.
GpRepresentations == {"kTagged", "kUntagged"}

Untagged(ploc, r2, r3, r4, x2, call2) ==
  FlowGraph(
    <<GraphEntry(<<Constant(1)>>),
      Block("FunctionEntry", <<1>>, <<>>, <<>>, <<Parameter(2, ploc)>>,
        <<Def(3, RequiresRegister, <<In(2, x2)>>),
          Instr("Call", -1, NoLocation, <<In(1, AnyLocation)>>, <<>>, <<>>, "call"),
          Keep(<<3>>),
          Def(4, RequiresRegister, <<In(1, AnyLocation)>>),
          Instr("Call", -1, NoLocation, <<In(1, AnyLocation)>>, <<>>, <<>>, call2),
          Def(5, RequiresRegister, <<In(4, RequiresRegister)>>),
          Return(5)>>)>>,
    <<"kTagged", r2, r3, r4, "kTagged">>, <<>>, 0)

UntaggedGraphs ==
  {Untagged(ploc, r2, r3, r4, x2, call2) :
     ploc \in {RegisterLocation(1), StackSlot(2)},
     r2 \in GpRepresentations, r3 \in GpRepresentations, r4 \in GpRepresentations,
     x2 \in {AnyLocation, RequiresRegister, RequiresStack},
     call2 \in {"slow", "call"}}

\* A leaf function: v2 is a parameter in the caller's frame, v3 = f(v2),
\* two checks whose slow paths may call (k1, k2), v4 = g(v3), return v4.
Leaf(k1, k2, x2, x3, out) ==
  FlowGraph(
    <<GraphEntry(<<Constant(1)>>),
      Block("FunctionEntry", <<1>>, <<>>, <<>>, <<Parameter(2, StackSlot(2))>>,
        <<Def(3, RequiresRegister, <<In(2, AnyLocation)>>),
          Instr("Check", -1, NoLocation, <<In(3, RequiresRegister)>>, <<>>, <<>>, k1),
          Instr("Check", -1, NoLocation, <<In(2, x2)>>, <<>>, <<>>, k2),
          Def(4, out, <<In(3, x3)>>),
          Return(4)>>)>>,
    Tagged(4), <<>>, 0)

LeafGraphs ==
  {Leaf(k1, k2, x2, x3, out) :
     k1 \in {"none", "shared", "slow"}, k2 \in {"none", "shared"},
     x2 \in {AnyLocation, RequiresRegister}, x3 \in {AnyLocation, RequiresRegister},
     out \in {RequiresRegister, SameAsFirstInput, RegisterLocation(0)}}

\* A value live across a call: v3 is defined, the next instruction always
\* calls and reads nothing, and the instruction after it reads v3 at the
\* location use; the extra values are live across the call as well.
CallAcross(ploc, use, extra, ret) ==
  FlowGraph(
    <<GraphEntry(<<Constant(1)>>),
      Block("FunctionEntry", <<1>>, <<>>, <<>>, <<Parameter(2, ploc)>>,
        <<Def(3, RequiresRegister, <<>>),
          Instr("Call", -1, NoLocation, <<>>, <<>>, <<>>, "call"),
          Instr("Op", -1, NoLocation, <<In(3, use)>>, <<>>, <<>>, "none"),
          Keep(Extra(<<2, 1>>, extra))>> \o ret)>>,
    Tagged(3), <<>>, 0)

CallAcrossGraphs ==
  {CallAcross(ploc, use, extra, ret) :
     ploc \in ParameterLocations,
     use \in {RequiresRegister, PrefersRegister, AnyLocation},
     extra \in ExtraCounts,
     ret \in {<<>>, <<Return(1)>>}}

\* A phi over two predecessors: B3 defines v5 and B4 defines v6 while nothing
\* else is in a register, the join B5 has v7 = phi(v5, v6), reads v7 at the
\* location use and returns the value ret.
PhiJoin(ploc, use, extra, ret) ==
  FlowGraph(
    <<GraphEntry(<<Constant(1)>>),
      Block("FunctionEntry", <<1>>, <<3, 4>>, <<>>, <<Parameter(2, ploc)>>,
        <<Def(3, RequiresRegister, <<In(2, AnyLocation)>>), Branch(3)>>),
      Block("TargetEntry", <<2>>, <<5>>, <<>>, <<>>, <<Def(5, RequiresRegister, <<>>), Goto>>),
      Block("TargetEntry", <<2>>, <<5>>, <<>>, <<>>, <<Def(6, RequiresRegister, <<>>), Goto>>),
      Block("JoinEntry", <<3, 4>>, <<>>, <<Phi(7, <<5, 6>>)>>, <<>>,
        <<Instr("Op", -1, NoLocation, <<In(7, use)>>, <<>>, <<>>, "none"),
          Keep(Extra(<<2, 1>>, extra)),
          Return(ret)>>)>>,
    Tagged(7), <<>>, 0)

PhiJoinGraphs ==
  {PhiJoin(ploc, use, extra, ret) :
     ploc \in ParameterLocations,
     use \in {RequiresRegister, AnyLocation, RegisterLocation(0), RegisterLocation(1)},
     extra \in ExtraCounts,
     ret \in {1, 7}}

\* A writable input: v3 is defined, the next instruction v4 = f(v3) reads it
\* as a writable register, and the values later (v3 or none) and the extra
\* values are read after it.
WritableInput(ploc, later, extra) ==
  FlowGraph(
    <<GraphEntry(<<Constant(1)>>),
      Block("FunctionEntry", <<1>>, <<>>, <<>>, <<Parameter(2, ploc)>>,
        <<Def(3, RequiresRegister, <<>>),
          Def(4, RequiresRegister, <<In(3, WritableRegister)>>),
          Keep(later \o Extra(<<2, 1>>, extra)),
          Return(4)>>)>>,
    Tagged(4), <<>>, 0)

WritableInputGraphs ==
  {WritableInput(ploc, later, extra) :
     ploc \in ParameterLocations, later \in {<<>>, <<3>>}, extra \in ExtraCounts}

\* The constant v3 and the definition d of v4 in the body: v4 has no uses,
\* uses are the uses of v3, if any.
DefinitionInBody(ploc, d, uses, extra) ==
  FlowGraph(<<GraphEntry(<<Constant(1)>>),
              Block("FunctionEntry", <<1>>, <<>>, <<>>, <<Parameter(2, ploc)>>,
                    <<ConstantDef(3), d>> \o uses \o <<Keep(Extra(<<2, 1>>, extra)), Return(1)>>)>>,
            Tagged(4), <<>>, 0)
DefinitionInBodyGraphs ==
  {DefinitionInBody(ploc, d, uses, extra) :
     ploc \in ParameterLocations,
     d \in {Def(4, RequiresRegister, <<>>), Def(4, RegisterLocation(1), <<>>)},
     uses \in {<<>>, <<Keep(<<3>>)>>,
               <<Instr("Op", -1, NoLocation, <<In(3, RequiresRegister)>>, <<>>, <<>>, "none")>>},
     extra \in ExtraCounts}

\* The graphs compiled in intrinsic mode as well: leaf functions whose
\* instructions call on slow paths at most.
IntrinsicGraphs ==
  {graph \in LeafGraphs :
     \A b \in 1..Len(graph.blocks) : \A i \in 1..Len(graph.blocks[b].body) :
        ~graph.blocks[b].body[i].always_calls}

\* The registers of one kind that an instruction needs at the same time: its
\* register inputs, its temporaries and its output are all live over
\* [pos, pos + 1).  The first input of a same-as-first-input instruction is
\* moved into the output.
RegisterDemand(instr, policies) ==
  LET first == IF instr.out.k = "SameAsFirstInput" THEN 2 ELSE 1 IN
  Cardinality({j \in first..Len(instr.ins) : instr.ins[j].loc.k \in policies})
  + Cardinality({j \in 1..Len(instr.temps) : instr.temps[j].k \in policies})
  + (IF instr.out.k \in policies THEN 1 ELSE 0)

CpuPolicies == {"Register", "RequiresRegister", "WritableRegister", "SameAsFirstInput"}
FpuPolicies == {"FpuRegister", "RequiresFpuRegister"}

\* The location summaries fit the register file of the target, the output
\* of an instruction is no register that one of its temporaries is fixed to,
\* and the first input of a same-as-first-input instruction is in a register.
FitsRegisters(graph) ==
  \A b \in 1..Len(graph.blocks) : \A i \in 1..Len(graph.blocks[b].body) :
     /\ RegisterDemand(graph.blocks[b].body[i], CpuPolicies) <= NumAllocatableCpu
     /\ RegisterDemand(graph.blocks[b].body[i], FpuPolicies) <= NumAllocatableFpu
     /\ \A j \in 1..Len(graph.blocks[b].body[i].temps) :
           IsMachineRegister(graph.blocks[b].body[i].temps[j])
             => graph.blocks[b].body[i].temps[j] # graph.blocks[b].body[i].out
     /\ graph.blocks[b].body[i].out.k = "SameAsFirstInput"
          => graph.blocks[b].body[i].ins[1].loc.k
               \in {"RequiresRegister", "RequiresFpuRegister", "Register", "FpuRegister"}

FlowGraphs ==
  {graph \in StraightGraphs \cup DiamondGraphs \cup LoopGraphs \cup TryCatchGraphs
                \cup FpuGraphs \cup FixedRegistersGraphs \cup UntaggedGraphs
                \cup LeafGraphs \cup CallAcrossGraphs
                \cup PhiJoinGraphs \cup WritableInputGraphs \cup DefinitionInBodyGraphs \cup CatchParameterGraphs \cup MixedSpillsGraphs \cup FpParamGraphs :
     FitsRegisters(graph)}

(***************************************************************************)
(* AllocateRegisters as a sequence of steps.                               *)
(***************************************************************************)
Init ==
  /\ flow_graph_ \in FlowGraphs
  /\ phase = "Start"
  /\ cursor = [x |-> 0, i |-> -1, interference |-> 0, catch |-> 0]
  /\ start_pos = <<>> /\ end_pos = <<>>
  /\ liveness_ = [live_in |-> <<>>, live_out |-> <<>>, kill |-> <<>>]
  /\ slots = InstructionSlots
  /\ moves = <<>>
  /\ ranges = <<>>
  /\ live_ranges_ = [v \in VregIds |-> 0]
  /\ cpu_regs_ = [r \in 0..(kNumberOfCpuRegisters - 1) |-> 0]
  /\ fpu_regs_ = [r \in 0..(kNumberOfFpuRegisters - 1) |-> 0]
  /\ unallocated_cpu_ = <<>> /\ unallocated_fpu_ = <<>>
  /\ safepoints_ = <<>>
  /\ stack_bitmap = <<>>
  /\ backedge_interference = <<>>
  /\ register_kind_ = "Invalid"
  /\ registers_ = <<>> /\ blocked_registers_ = <<>> /\ unallocated_ = <<>>
  /\ spill_slots_ = <<>> /\ quad_spill_slots_ = <<>> /\ untagged_spill_slots_ = <<>>
  /\ spilled_ = <<>>
  /\ cpu_spill_slot_count_ = 0
  /\ intrinsic_mode_ \in (IF flow_graph_ \in IntrinsicGraphs THEN BOOLEAN ELSE {FALSE})
  /\ graph_entry_ = [spill_slot_count |-> 0, frameless |-> FALSE]
  /\ history = [allocated |-> <<>>, fatal |-> FALSE, writes |-> <<>>, any_register |-> FALSE,
                queued |-> {}, splits |-> <<>>,
                split_between |-> <<>>,
                free_register |-> <<>>,
                any_calls |-> <<>>,
                removed |-> <<>>,
                advanced |-> <<>>,
                pending_moves |-> <<>>,
                inserted |-> <<>>,
                reserved |-> <<>>]

\* liveness_.Analyze() and NumberInstructions().
AnalyzeAndNumber ==
  /\ phase = "Start"
  /\ LET init == ComputeInitialSets
         live == Analyze(init, [live_in |-> init.live_in,
                                live_out |-> [b \in BlockIds |-> {}], kill |-> init.kill])
         A == NumberInstructions([Self EXCEPT !.liveness_ = live])
     IN Commit([A EXCEPT !.phase = "BuildLiveRanges", !.cursor.x = BlockCount])

BuildBeginBlock ==
  /\ phase = "BuildLiveRanges" /\ cursor.x > 1 /\ cursor.i = -1
  /\ Commit(Call("BeginBlock", <<Self, cursor.x>>))

BuildInstruction ==
  /\ phase = "BuildLiveRanges" /\ cursor.x > 1 /\ cursor.i > 0
  /\ Commit(Call("InstructionStep", <<Self, cursor.x, cursor.i>>))

BuildEndBlock ==
  /\ phase = "BuildLiveRanges" /\ cursor.x > 1 /\ cursor.i = 0
  /\ Commit(Call("EndBlock", <<Self, cursor.x>>))

BuildGraphEntry ==
  /\ phase = "BuildLiveRanges" /\ cursor.x = 1
  /\ Commit([Call("PrepareCpu", <<Self>>) EXCEPT !.phase = "AllocateCpu", !.cursor.x = 0])

Allocate ==
  /\ phase \in {"AllocateCpu", "AllocateFpu"} /\ unallocated_ # <<>> /\ ~history.fatal
  /\ Commit(Call("AllocateRange", <<Self>>))

FinishCpu ==
  /\ phase = "AllocateCpu" /\ unallocated_ = <<>> /\ ~history.fatal
  /\ Commit([Call("PrepareFpu", <<Self>>) EXCEPT !.phase = "AllocateFpu"])

FinishFpu ==
  /\ phase = "AllocateFpu" /\ unallocated_ = <<>> /\ ~history.fatal
  /\ Commit([Call("SetSpillSlotCount", <<Call("FinishAllocation", <<Self>>)>>)
               EXCEPT !.phase = "RemoveFrameIfNotNeeded"])

\* RemoveFrameIfNotNeeded; the mode of the compiler and whether the function
\* copies its parameters are given from outside.
RemoveFrame ==
  /\ phase = "RemoveFrameIfNotNeeded" /\ ~history.fatal
  /\ \E precompiled_mode \in BOOLEAN : \E makes_copy_of_parameters \in BOOLEAN :
        Commit([Call("RemoveFrameIfNotNeeded", <<Self, precompiled_mode, makes_copy_of_parameters>>)
                  EXCEPT !.phase = "ResolveControlFlow"])

Resolve ==
  /\ phase = "ResolveControlFlow" /\ ~history.fatal
  /\ Commit([Call("ResolveControlFlow", <<Self>>) EXCEPT !.phase = "Done"])

Next ==
  \/ AnalyzeAndNumber
  \/ BuildBeginBlock
  \/ BuildInstruction
  \/ BuildEndBlock
  \/ BuildGraphEntry
  \/ Allocate
  \/ FinishCpu
  \/ FinishFpu
  \/ RemoveFrame
  \/ Resolve

Spec == Init /\ [][Next]_vars

\* A step of AllocateRegisters can be taken: the guards of the actions of
\* Next.  A pass that reported that it ran out of registers has stopped.
Running ==
  \/ phase \in {"Start", "BuildLiveRanges"}
  \/ /\ phase \in {"AllocateCpu", "AllocateFpu", "RemoveFrameIfNotNeeded", "ResolveControlFlow"}
     /\ ~history.fatal

\* AllocateRegisters runs its phases and the turns of its loops one after
\* the other on one thread: a step that can be taken is taken.  This is weak
\* fairness of Next, with the enabling condition of Next written as Running.
LiveSpec == Spec /\ ([]<>(~Running) \/ []<><<Next>>_vars)

(***************************************************************************)
(* Properties of the allocator.                                            *)
(***************************************************************************)
InAllocationLoop == phase \in {"AllocateCpu", "AllocateFpu"}
AllocationFinished == phase \in {"RemoveFrameIfNotNeeded", "ResolveControlFlow", "Done"}

\* Two ranges have use intervals that share a position.
SharePosition(r, s) ==
  \E i \in 1..Len(r.intervals) : \E j \in 1..Len(s.intervals) :
     r.intervals[i].start < s.intervals[j].end /\ s.intervals[j].start < r.intervals[i].end

\* C1: in the allocation loop and after it, no two live ranges held on one
\* machine register (ranges of virtual registers, temporaries, the blocking
\* range of the register) have use intervals that share a position.
C1_RegistersHoldDisjointRanges ==
  (InAllocationLoop \/ AllocationFinished) =>
    \A reg \in DOMAIN registers_ :
       \A i \in 1..Len(registers_[reg]) : \A j \in 1..Len(registers_[reg]) :
          i # j => ~SharePosition(ranges[registers_[reg][i]], ranges[registers_[reg][j]])

\* In the loop, after a spill: a register holds its blocking range together
\* with the range of a virtual register, and a register holds a temporary.
C1_Witness ==
  /\ InAllocationLoop /\ spilled_ # <<>>
  /\ \E reg \in DOMAIN registers_ :
        /\ \E i \in 1..Len(registers_[reg]) : ranges[registers_[reg][i]].vreg = kNoVirtualRegister
        /\ \E i \in 1..Len(registers_[reg]) : ranges[registers_[reg][i]].vreg >= 0
  /\ \E reg \in DOMAIN registers_ :
        \E i \in 1..Len(registers_[reg]) : ranges[registers_[reg][i]].vreg = kTempVirtualRegister

\* The ranges of the sibling chain of virtual register v, and the positions
\* at which v has a use.
Chain(v) == IF live_ranges_[v] = 0 THEN {} ELSE SeqToSet(Siblings(ranges, live_ranges_[v]))
UsePositionsOf(v) ==
  UNION {{ranges[s].uses[k].pos : k \in 1..Len(ranges[s].uses)} : s \in Chain(v)}
Covering(v, p) == {s \in Chain(v) : CanCover(ranges[s], p)}

\* C2 as stated: after both passes, every position at which a virtual
\* register has a use is covered by exactly one range of its sibling chain,
\* and the location assigned to that sibling is not invalid.
C2_ExactlyOneSiblingCoversUse ==
  AllocationFinished =>
    \A v \in DOMAIN live_ranges_ : \A p \in UsePositionsOf(v) :
       /\ Cardinality(Covering(v, p)) = 1
       /\ \A s \in Covering(v, p) : ~IsInvalid(ranges[s].assigned_location)

\* C2 amended: after both passes, at most one sibling covers (half-open) a
\* position at which the virtual register has a use; the sibling that holds
\* the use spans it with its end included, and its location is not invalid.
C2_UseHeldByOneAllocatedSibling ==
  AllocationFinished =>
    \A v \in DOMAIN live_ranges_ :
       /\ \A p \in UsePositionsOf(v) : Cardinality(Covering(v, p)) <= 1
       /\ \A s \in Chain(v) : \A k \in 1..Len(ranges[s].uses) :
             /\ Start(ranges[s]) <= ranges[s].uses[k].pos
             /\ ranges[s].uses[k].pos <= End(ranges[s])
             /\ ~IsInvalid(ranges[s].assigned_location)

\* A split value after both passes, with a use at the end of the sibling that
\* holds it.
C2_Witness ==
  /\ AllocationFinished
  /\ \E v \in DOMAIN live_ranges_ :
        /\ Cardinality(Chain(v)) >= 2
        /\ \E s \in Chain(v) : \E k \in 1..Len(ranges[s].uses) :
              ranges[s].uses[k].pos = End(ranges[s])

Returned == phase = "Done"

\* A register, an FPU register, a stack slot or a constant.
IsConcrete(loc) == IsMachineRegister(loc) \/ HasStackIndex(loc) \/ IsConstant(loc)

\* The location slots attached to the use positions of range rid.
UseSlots(rid) == {ranges[rid].uses[k].location_slot : k \in 1..Len(ranges[rid].uses)}

\* C3: when AllocateRegisters returns, every location slot attached to a use
\* position of a live range (of a virtual register or of a temporary) holds
\* a concrete location, none an unallocated policy.
C3_UseSlotsHoldConcreteLocations ==
  Returned =>
    /\ \A rid \in 1..Len(ranges) : \A slot \in UseSlots(rid) :
          IsConcrete(Deref(Self, slot))
    /\ \A slot \in DOMAIN slots : ~IsUnallocated(slots[slot])

\* AllocateRegisters returned with a spilled value and a temporary, and the
\* slots of their uses started as policies.
C3_Witness ==
  /\ Returned /\ spilled_ # <<>>
  /\ \E rid \in 1..Len(ranges) :
        ranges[rid].vreg = kTempVirtualRegister /\ UseSlots(rid) # {}
  /\ \E rid \in 1..Len(ranges) : \E slot \in UseSlots(rid) :
        /\ ranges[rid].vreg >= 0 /\ HasStackIndex(Deref(Self, slot))
        /\ slot \in DOMAIN InstructionSlots /\ IsUnallocated(InstructionSlots[slot])

\* The location of v at pos: that of the range when it was never split, else
\* that of the sibling that covers pos.
LocationAt(v, pos) ==
  LET parent == live_ranges_[v]
      cover == FindCover(Self, parent, pos) IN
  IF ranges[parent].next_sibling = 0 THEN ranges[parent].assigned_location
  ELSE IF cover = 0 THEN NoLocation
  ELSE ranges[cover].assigned_location

\* A move from src to dst was added to the parallel move pm.
HasMove(pm, dst, src) ==
  \E m \in 1..Len(moves) :
     moves[m].pm = pm /\ slots[DestSlot(m)] = dst /\ slots[SrcSlot(m)] = src

MovedOnEdge(pred, block, dst, src) ==
  HasMove(GotoParallelMove(pred), dst, src) \/ HasMove(EntryParallelMove(block), dst, src)

\* The edges into the blocks, with the values live across them.
LiveEdges ==
  {e \in [block : 2..BlockCount, pred : BlockIds, vreg : DOMAIN live_ranges_] :
     /\ e.pred \in SeqToSet(Blocks[e.block].preds)
     /\ e.vreg \in liveness_.live_in[e.block]}

ExitLocation(e) == LocationAt(e.vreg, end_pos[e.pred] - 1)
EntryLocation(e) == LocationAt(e.vreg, start_pos[e.block])

ClobberingCalls ==
  UNION {{<<b, start_pos[b] + 2 * i>> :
            i \in {k \in 1..Len(Body(b)) : /\ InstrAt(b, k).always_calls
                                          /\ ~InstrAt(b, k).callee_safe_call}} :
         b \in BlockIds}

\* Instruction i of block b reads v as an input or in its environment.
Reads(b, i, v) ==
  \/ \E j \in 1..Len(InstrAt(b, i).ins) : InstrAt(b, i).ins[j].vreg = v
  \/ v \in SeqToSet(InstrAt(b, i).env)

\* v is defined before pos in block b, or live into b.
LiveBefore(v, b, pos) ==
  \/ v \in liveness_.live_in[b]
  \/ \E k \in 1..Len(Blocks[b].defs) : Blocks[b].defs[k].vreg = v
  \/ \E k \in 1..Len(Blocks[b].phis) : Blocks[b].phis[k].vreg = v
  \/ \E i \in 1..Len(Body(b)) : start_pos[b] + 2 * i < pos /\ InstrAt(b, i).vreg = v

\* v is read after pos in block b, or live out of b.
LiveAfter(v, b, pos) ==
  \/ v \in liveness_.live_out[b]
  \/ \E i \in 1..Len(Body(b)) : start_pos[b] + 2 * i > pos /\ Reads(b, i, v)

\* The siblings of v one of whose use intervals contains pos.
SiblingsAt(v, pos) ==
  {s \in Chain(v) : \E k \in 1..Len(ranges[s].intervals) :
                       IntervalContains(ranges[s].intervals[k], pos)}

\* The lifetime of v goes on after the clobber interval of the call at pos:
\* v is live out of b, or read after the call other than by a fixed-register
\* input of the instruction that follows the call, which reads v at pos + 1
\* where the lifetime ends.
LiveBeyond(v, b, pos) ==
  \/ v \in liveness_.live_out[b]
  \/ \E i \in 1..Len(Body(b)) :
        /\ start_pos[b] + 2 * i > pos
        /\ \/ v \in SeqToSet(InstrAt(b, i).env)
           \/ \E j \in 1..Len(InstrAt(b, i).ins) :
                 /\ InstrAt(b, i).ins[j].vreg = v
                 /\ \/ start_pos[b] + 2 * i > pos + 2
                    \/ ~IsMachineRegister(InstrAt(b, i).ins[j].loc)

\* v is live across the call at c[2] and in a register just before it.
InRegisterAcross(v, c) ==
  /\ LiveBefore(v, c[1], c[2]) /\ LiveAfter(v, c[1], c[2])
  /\ \E s \in SiblingsAt(v, c[2] - 1) : IsMachineRegister(ranges[s].assigned_location)

\* C5: after both passes, a value that is live across an instruction that
\* always calls and is not a callee-safe call, and that is in a register
\* before the call, is split around the call: no sibling that was assigned a
\* machine register has a use interval containing the position of the call,
\* and the positions of the value before and after the call are covered by
\* siblings.
C5_SplitAroundCall ==
  AllocationFinished =>
    \A c \in ClobberingCalls : \A v \in DOMAIN live_ranges_ :
       InRegisterAcross(v, c) =>
         /\ \A s \in SiblingsAt(v, c[2]) : ~IsMachineRegister(ranges[s].assigned_location)
         /\ SiblingsAt(v, c[2] - 1) # {}
         /\ SiblingsAt(v, c[2]) # {}
         /\ LiveBeyond(v, c[1], c[2]) => SiblingsAt(v, c[2] + 1) # {}

\* A value in a register before a call is on the stack over the call and in
\* a register again after it.
C5_Witness ==
  /\ AllocationFinished
  /\ \E c \in ClobberingCalls : \E v \in DOMAIN live_ranges_ :
        /\ InRegisterAcross(v, c)
        /\ \E s \in SiblingsAt(v, c[2]) : HasStackIndex(ranges[s].assigned_location)
        /\ \E p \in (c[2] + 2)..end_pos[c[1]] :
              \E s \in SiblingsAt(v, p) : IsMachineRegister(ranges[s].assigned_location)

\* The spill slots handed out by AllocateSpillSlotFor to tagged values.
TaggedSpills ==
  {v \in DOMAIN live_ranges_ :
     \E k \in 1..Len(history.allocated) :
        /\ history.allocated[k].vreg = v
        /\ history.allocated[k].representation = "kTagged"
        /\ HasStackIndex(ranges[live_ranges_[v]].spill_slot)}

\* The safepoints in the safepoint lists of the siblings of v, as the
\* positions of their instructions.
SafepointsOf(v) ==
  UNION {{ToInstructionStart(p) : p \in SeqToSet(ranges[s].safepoints)} : s \in Chain(v)}

\* The stack bitmap of the safepoint at pos has the bit of the slot set.
StackBitSet(pos, spill_slot) ==
  pos \in DOMAIN stack_bitmap /\ StackIndex(spill_slot) \in stack_bitmap[pos]

\* C6: when allocation has finished, for every tagged virtual register that
\* was given a stack spill slot and every safepoint in the safepoint list of
\* one of its siblings, the stack bitmap of the safepoint has the bit of the
\* slot set.
C6_TaggedSpillSlotsMarkedAtSafepoints ==
  AllocationFinished =>
    \A v \in TaggedSpills : \A pos \in SafepointsOf(v) :
       StackBitSet(pos, ranges[live_ranges_[v]].spill_slot)

\* The sibling chains of the arena: every range with the siblings after it.
LaterSiblings(rid) == Tail(Siblings(ranges, rid))

\* C7: whatever SplitAt calls were made on the ranges of a value, every range
\* of a sibling chain ends no later than any range that comes later in the
\* chain starts: siblings may touch and never overlap.
C7_SiblingsOrdered ==
  \A rid \in 1..Len(ranges) : \A s \in SeqToSet(LaterSiblings(rid)) :
     End(ranges[rid]) <= Start(ranges[s])

\* A chain of three siblings, two of them touching and two of them apart.
C7_Witness ==
  \E rid \in 1..Len(ranges) :
     /\ Len(LaterSiblings(rid)) >= 2
     /\ \E s \in SeqToSet(LaterSiblings(rid)) : End(ranges[rid]) = Start(ranges[s])
     /\ \E r \in SeqToSet(Siblings(ranges, rid)) :
           /\ ranges[r].next_sibling # 0
           /\ End(ranges[r]) < Start(ranges[ranges[r].next_sibling])

\* The live ranges are being built, or were built and are being allocated by
\* the first pass.
UnderConstruction == phase \in {"BuildLiveRanges", "AllocateCpu"}

\* C8: while the live ranges are built with AddUseInterval and DefineAt, and
\* once they are built, the use-interval list of every range is sorted
\* ascending by start, no two intervals overlap and no two consecutive
\* intervals touch.
C8_UseIntervalsSortedAndApart ==
  UnderConstruction =>
    \A rid \in 1..Len(ranges) :
       LET ivs == ranges[rid].intervals IN
       /\ \A k \in 1..Len(ivs) : ivs[k].start <= ivs[k].end
       /\ \A k \in 1..(Len(ivs) - 1) :
             ivs[k].start < ivs[k + 1].start /\ ivs[k].end < ivs[k + 1].start

\* During construction: a value with a lifetime hole, a value whose first
\* interval was extended over a block boundary by an interval that touched
\* it, and a blocking range with several intervals.
C8_Witness ==
  /\ phase = "BuildLiveRanges"
  /\ \E rid \in 1..Len(ranges) :
        ranges[rid].vreg >= 0 /\ Len(ranges[rid].intervals) >= 2
  /\ \E rid \in 1..Len(ranges) : \E b \in 2..BlockCount :
        /\ ranges[rid].vreg >= 0 /\ ranges[rid].intervals # <<>>
        /\ ranges[rid].intervals[1].start < start_pos[b]
        /\ start_pos[b] < ranges[rid].intervals[1].end
  /\ \E rid \in 1..Len(ranges) :
        ranges[rid].vreg = kNoVirtualRegister /\ Len(ranges[rid].intervals) >= 2

UsesSorted(r) == \A k \in 1..(Len(r.uses) - 1) : r.uses[k].pos <= r.uses[k + 1].pos

\* C9 as stated: while and after the live ranges are built with AddUse and
\* AddHintedUse, the use positions of every range are sorted ascending and
\* each lies inside a half-open use interval [start, end) of the range.
C9_UsesInsideHalfOpenIntervals ==
  UnderConstruction =>
    \A rid \in 1..Len(ranges) :
       /\ UsesSorted(ranges[rid])
       /\ \A k \in 1..Len(ranges[rid].uses) : \E j \in 1..Len(ranges[rid].intervals) :
             IntervalContains(ranges[rid].intervals[j], ranges[rid].uses[k].pos)

\* C9 amended: the use positions are sorted ascending and each lies in a use
\* interval of the range or at its end: start <= pos <= end.
C9_UsesInsideClosedIntervals ==
  UnderConstruction =>
    \A rid \in 1..Len(ranges) :
       /\ UsesSorted(ranges[rid])
       /\ \A k \in 1..Len(ranges[rid].uses) : \E j \in 1..Len(ranges[rid].intervals) :
             /\ ranges[rid].intervals[j].start <= ranges[rid].uses[k].pos
             /\ ranges[rid].uses[k].pos <= ranges[rid].intervals[j].end

\* During construction a range has a use at the end of its last interval,
\* and the use of a value by an input of an instruction was put behind the
\* use of the same value by a fixed-register input of that instruction.
C9_Witness ==
  /\ phase = "BuildLiveRanges"
  /\ \E rid \in 1..Len(ranges) : \E k \in 1..Len(ranges[rid].uses) :
        ranges[rid].uses[k].pos = End(ranges[rid])
  /\ \E rid \in 1..Len(ranges) : \E k \in 1..(Len(ranges[rid].uses) - 1) :
        LET fixed == ranges[rid].uses[k]
            other == ranges[rid].uses[k + 1]
        IN /\ fixed.pos < other.pos
           /\ fixed.hint.t = "in" /\ other.location_slot.t = "in"
           /\ fixed.hint.b = other.location_slot.b
           /\ fixed.hint.i = other.location_slot.i

\* The spill slots handed out in the FPU pass: to quad values, and to double
\* and single-precision values.
FpuSpills == {e \in SeqToSet(history.allocated) : e.kind = "FpuRegister"}
QuadSpills == {e \in FpuSpills : e.representation \in QuadRepresentations}
DoubleSpills == FpuSpills \ QuadSpills

FpuPassStarted ==
  phase \in {"AllocateFpu", "RemoveFrameIfNotNeeded", "ResolveControlFlow", "Done"}

\* C10: whatever spill slots were allocated in the FPU pass, no slot index was
\* given both to a quad value and to a double or single-precision value, and
\* a quad value has two consecutive indices that are both flagged quad and
\* carry the same expiry position.
C10_QuadAndDoubleSlotsDisjoint ==
  FpuPassStarted =>
    /\ UNION {{e.first, e.last} : e \in QuadSpills} \cap {e.last : e \in DoubleSpills} = {}
    /\ \A e \in DoubleSpills : e.first = e.last
    /\ \A e \in QuadSpills :
          /\ e.last = e.first + 1
          /\ e.last < Len(spill_slots_)
          /\ quad_spill_slots_[e.first + 1] /\ quad_spill_slots_[e.last + 1]
          /\ spill_slots_[e.first + 1] = spill_slots_[e.last + 1]

\* The FPU pass spilled a quad value and a double value, and gave a slot that
\* had expired to a second value.
C10_Witness ==
  /\ FpuPassStarted
  /\ QuadSpills # {} /\ DoubleSpills # {}
  /\ \E e \in FpuSpills : ~e.fresh

(***************************************************************************)
(* Spill slots of word-sized values.                                       *)
(***************************************************************************)
\* The spill slots given to word-sized values, on every path through
\* AllocateSpillSlotFor.
GpSpills ==
  {k \in 1..Len(history.allocated) :
     history.allocated[k].representation \in WordRepresentations}

\* C11: no spill slot index is given both to a range of untagged
\* representation and to a range of tagged representation.
C11_TaggedAndUntaggedSlotsDisjoint ==
  \A j \in GpSpills : \A k \in GpSpills :
     (/\ history.allocated[j].representation = "kUntagged"
      /\ history.allocated[k].representation = "kTagged")
       => history.allocated[j].last # history.allocated[k].last

(***************************************************************************)
(* Fixed registers of location summaries.                                  *)
(***************************************************************************)
\* The output location as ProcessOneInstruction sees it: a same-as-first-input
\* output whose first input is a fixed register is that register.
OutputLocation(instr) ==
  IF instr.out.k = "SameAsFirstInput" /\ IsMachineRegister(instr.ins[1].loc)
    THEN instr.ins[1].loc ELSE instr.out

FixedInputs(instr) ==
  {instr.ins[j].loc : j \in {k \in 1..Len(instr.ins) : IsMachineRegister(instr.ins[k].loc)}}

FixedOutputAndTemps(instr) ==
  {loc \in {OutputLocation(instr)} \cup SeqToSet(instr.temps) : IsMachineRegister(loc)}

BlockingRange(loc) == IF IsRegister(loc) THEN cpu_regs_[loc.n] ELSE fpu_regs_[loc.n]

BlockedAt(loc, p) ==
  BlockingRange(loc) # 0 /\ RangeContains(ranges[BlockingRange(loc)], p)

\* A range of a virtual register or of a temporary that is assigned loc and
\* is live at p.
HeldAt(loc, p) ==
  \E rid \in 1..Len(ranges) :
     /\ ranges[rid].vreg # kNoVirtualRegister
     /\ ranges[rid].assigned_location = loc
     /\ ranges[rid].intervals # <<>>
     /\ RangeContains(ranges[rid], p)

\* C12: for the instruction at pos, the register of a fixed input is in the
\* blocking range of that register at pos - 1 and pos, the register of a
\* fixed output or temporary at pos, and no range of a virtual register is
\* assigned the register at these positions.
C12_FixedRegistersBlocked ==
  (InAllocationLoop \/ AllocationFinished) =>
    \A b \in BlockIds : \A i \in 1..Len(Body(b)) :
       LET pos == start_pos[b] + 2 * i IN
       /\ \A loc \in FixedInputs(InstrAt(b, i)) : \A p \in {pos - 1, pos} :
             BlockedAt(loc, p) /\ ~HeldAt(loc, p)
       /\ \A loc \in FixedOutputAndTemps(InstrAt(b, i)) :
             BlockedAt(loc, pos) /\ ~HeldAt(loc, pos)

\* Allocation is over; an instruction has a fixed input and a fixed output or
\* temporary, and a value is held in the register of the fixed input up to
\* the position where the register is blocked.
C12_Witness ==
  /\ phase = "Done"
  /\ \E b \in BlockIds : \E i \in 1..Len(Body(b)) :
        /\ FixedOutputAndTemps(InstrAt(b, i)) # {}
        /\ \E loc \in FixedInputs(InstrAt(b, i)) : \E rid \in 1..Len(ranges) :
              /\ ranges[rid].vreg >= 0
              /\ ranges[rid].assigned_location = loc
              /\ ranges[rid].intervals # <<>>
              /\ End(ranges[rid]) = start_pos[b] + 2 * i - 1

(***************************************************************************)
(* Writes of locations into the slots of use positions.                    *)
(***************************************************************************)
\* The slots that use positions of value ranges and temporaries refer to.
ReferencedSlots ==
  UNION {UseSlots(rid) : rid \in {r \in 1..Len(ranges) : ranges[r].vreg # kNoVirtualRegister}}

\* C13 as stated: during one run of AllocateRegisters every location slot
\* referenced by a use position is written exactly once, and by ConvertUseTo.
C13_SlotsWrittenOnceByConvertUseTo ==
  /\ \A slot \in DOMAIN history.writes : history.writes[slot] = <<"ConvertUseTo">>
  /\ Returned => ReferencedSlots \subseteq DOMAIN history.writes

\* C13: the slot of a use position gets its location by exactly one write:
\* by ConvertUseTo, or, for a use right after an output in a fixed register,
\* by ProcessOneOutput, which stores the register and drops the use.  Only
\* RemoveFrameIfNotNeeded writes such a slot once more, when it makes a
\* function outside intrinsic mode frameless: it rebases the slot of a use of
\* a parameter to the stack pointer.  When AllocateRegisters returns, every
\* slot still referenced by a use position has been written by ConvertUseTo.
C13_SlotsAllocatedOnce ==
  /\ \A slot \in DOMAIN history.writes :
        \/ history.writes[slot] = <<"ConvertUseTo">>
        \/ /\ history.writes[slot] = <<"ProcessOneOutput">>
           /\ IsMachineRegister(Deref(Self, slot))
           /\ slot \notin ReferencedSlots
        \/ /\ history.writes[slot] = <<"ConvertUseTo", "RemoveFrameIfNotNeeded">>
           /\ graph_entry_.frameless /\ ~intrinsic_mode_
           /\ Deref(Self, slot).k = "SpStackSlot"
  /\ Returned =>
       \A slot \in ReferencedSlots :
          slot \in DOMAIN history.writes /\ Head(history.writes[slot]) = "ConvertUseTo"

\* AllocateRegisters returned for a frameless function: ProcessOneOutput
\* wrote the slot of one use, ConvertUseTo those of others, and
\* RemoveFrameIfNotNeeded rewrote the slot of a use of a parameter.
C13_Witness ==
  /\ Returned /\ graph_entry_.frameless /\ ~intrinsic_mode_
  /\ \E slot \in DOMAIN history.writes :
        history.writes[slot] = <<"ConvertUseTo", "RemoveFrameIfNotNeeded">>
  /\ \E slot \in DOMAIN history.writes : history.writes[slot] = <<"ProcessOneOutput">>
  /\ \E slot \in ReferencedSlots : history.writes[slot] = <<"ConvertUseTo">>

(***************************************************************************)
(* Intrinsic mode.                                                         *)
(***************************************************************************)
\* The range that the next turn of the allocation loop pops, and the
\* allocator after AdvanceActiveIntervals for it.
NextRange == unallocated_[Len(unallocated_)]
AdvancedForNextRange ==
  Call("AdvanceActiveIntervals", <<[Self EXCEPT !.unallocated_ = SubSeq(@, 1, Len(@) - 1)],
                                   Start(ranges[NextRange])>>)

\* C14: in intrinsic mode the allocator never spills or evicts: when
\* AllocateFreeRegister returns false for the popped range, the loop stops in
\* a fatal state (no step follows it), AllocateAnyRegister is never executed
\* and no spill slot is handed out.
C14_IntrinsicModeNeverSpills ==
  [][/\ ~history.fatal
     /\ intrinsic_mode_ =>
          /\ ~history'.any_register /\ spilled_' = <<>> /\ history'.allocated = <<>>
          /\ (phase \in {"AllocateCpu", "AllocateFpu"} /\ unallocated_ # <<>>) =>
                (history'.fatal <=> ~Call("FreeRegisterFound", <<AdvancedForNextRange, NextRange>>))
    ]_vars

\* In intrinsic mode a value got a register and a later range found no free
\* register: the allocator stopped.
C14_Witness ==
  /\ intrinsic_mode_ /\ history.fatal /\ phase = "AllocateCpu"
  /\ \E rid \in 1..Len(ranges) :
        ranges[rid].vreg >= 0 /\ IsMachineRegister(ranges[rid].assigned_location)

(***************************************************************************)
(* The worklist of unallocated ranges.                                     *)
(***************************************************************************)
\* The ranges that SplitAt made: the siblings after the first of a chain.
SplitTails == {ranges[r].next_sibling : r \in 1..Len(ranges)} \ {0}

\* C15: the worklist unallocated_ stays sorted by start position, the
\* smallest start last, so that every pop (of the last element) returns a
\* queued range with the smallest start; this holds after AddToUnallocated
\* has pushed the tail of a split back as well.
C15_WorklistSortedByStart ==
  /\ \A i \in 1..Len(unallocated_) : \A j \in i..Len(unallocated_) :
        Start(ranges[unallocated_[j]]) <= Start(ranges[unallocated_[i]])
  /\ unallocated_ # <<>> =>
        \A k \in 1..Len(unallocated_) :
           Start(ranges[NextRange]) <= Start(ranges[unallocated_[k]])

\* The tail of a split waits on the worklist behind a range that starts
\* before it and in front of one that starts after it.
C15_Witness ==
  /\ phase = "AllocateCpu"
  /\ \E i \in 1..Len(unallocated_) : \E j \in 1..Len(unallocated_) : \E k \in 1..Len(unallocated_) :
        /\ i < j /\ j < k /\ unallocated_[j] \in SplitTails
        /\ Start(ranges[unallocated_[k]]) < Start(ranges[unallocated_[j]])
        /\ Start(ranges[unallocated_[j]]) < Start(ranges[unallocated_[i]])

(***************************************************************************)
(* Instruction numbering.                                                  *)
(***************************************************************************)
Numbered == phase # "Start"

CatchReservedPrefix(e) ==
  IF e.representation \in WordRepresentations THEN flow_graph_.fixed_slot_count ELSE 0

\* The indices from the prefix on that were free for the range of entry e
\* when AllocateSpillSlotFor was called: expired at its start, and of the
\* width and tagging that its representation needs.
FreeSlotsFor(e) ==
  {i \in CatchReservedPrefix(e)..(Len(e.before.expiry) - 1) :
     /\ e.before.expiry[i + 1] <= e.start
     /\ e.before.quad[i + 1] = (e.representation \in QuadRepresentations)
     /\ e.before.untagged[i + 1] = (e.representation = "kUntagged")}

\* The choice that C17 describes, for the entry e of history.allocated.
ChosenAsDescribed(e) ==
  /\ e.first >= CatchReservedPrefix(e)
  /\ IF FreeSlotsFor(e) # {}
       THEN /\ e.first \in FreeSlotsFor(e) /\ \A i \in FreeSlotsFor(e) : e.first <= i
            /\ Len(e.after.expiry) = Len(e.before.expiry)
       ELSE /\ e.first = Maximum(Len(e.before.expiry), CatchReservedPrefix(e))
            /\ Len(e.after.expiry)
                 = e.first + (IF e.representation \in QuadRepresentations THEN 2 ELSE 1)
  /\ e.last = e.first + (IF e.representation \in QuadRepresentations THEN 1 ELSE 0)
  /\ \A i \in e.first..e.last :
        /\ e.after.expiry[i + 1] = e.end
        /\ e.after.quad[i + 1] = (e.representation \in QuadRepresentations)
        /\ e.after.untagged[i + 1] = (e.representation = "kUntagged")
  /\ \E rid \in 1..Len(ranges) :
        ranges[rid].vreg = e.vreg /\ ranges[rid].next_sibling = 0 /\ End(ranges[rid]) >= e.end

\* C17: AllocateSpillSlotFor picks the lowest index at or above the
\* catch-reserved prefix whose expiry is at most the start of the range and
\* whose quad and untagged flags are what the range needs, else appends a new
\* slot (two for a quad); the expiry of the chosen slot becomes the end of the
\* last sibling of the range.
C17_LowestFreeSlotChosen ==
  \A k \in 1..Len(history.allocated) : ChosenAsDescribed(history.allocated[k])

(***************************************************************************)
(* Values live into a catch block.                                         *)
(***************************************************************************)
\* <<catch block, value>> for the values live into the catch blocks.
CatchLiveIns == {cv \in CatchTargets \X (DOMAIN live_ranges_) : cv[2] \in liveness_.live_in[cv[1]]}
\* The sibling of the value that covers the entry position of the catch block.
CoverAtCatchEntry(cv) == FindCoverFrom(ranges, live_ranges_[cv[2]], start_pos[cv[1]])
InRegisterAtCatchEntry(cv) ==
  /\ CoverAtCatchEntry(cv) # 0
  /\ IsMachineRegister(ranges[CoverAtCatchEntry(cv)].assigned_location)

CallingInstructions ==
  UNION {{<<b, i>> : i \in {j \in 1..Len(Body(b)) : Body(b)[j].can_call}} : b \in BlockIds}

\* No spill slot, and no instruction that can call except for at most one
\* call on a shared slow path.
NeedsNoFrame ==
  /\ graph_entry_.spill_slot_count = 0
  /\ \A bi \in CallingInstructions : Body(bi[1])[bi[2]].call_on_shared_slow_path
  /\ Cardinality(CallingInstructions) <= 1

\* C19 as stated: RemoveFrameIfNotNeeded marks the graph entry frameless only
\* when the function has no spills (spill_slot_count is 0) and no instruction
\* of it can call, except for at most one call on a shared slow path.
C19_FramelessOnlyWithoutSpillsAndCalls == graph_entry_.frameless => NeedsNoFrame

\* C19: outside intrinsic mode RemoveFrameIfNotNeeded marks the graph entry
\* frameless only when the function has no spills and no instruction of it
\* can call, except for at most one call on a shared slow path; in intrinsic
\* mode it marks the graph entry frameless whatever the function holds.
C19_FramelessOutsideIntrinsicMode ==
  /\ (graph_entry_.frameless /\ ~intrinsic_mode_) => NeedsNoFrame
  /\ (intrinsic_mode_ /\ phase \in {"ResolveControlFlow", "Done"}) => graph_entry_.frameless
  /\ graph_entry_.frameless => phase \in {"ResolveControlFlow", "Done"}

\* A function outside intrinsic mode whose only call is on a shared slow path
\* was made frameless, and its parameter is addressed relative to SP.
C19_Witness ==
  /\ Returned /\ graph_entry_.frameless /\ ~intrinsic_mode_
  /\ Cardinality(CallingInstructions) = 1
  /\ \E rid \in 1..Len(ranges) : ranges[rid].assigned_location.k = "SpStackSlot"

(***************************************************************************)
(* Termination of the allocation loop.                                     *)
(***************************************************************************)
\* Both passes of AllocateUnallocatedRanges have returned: the worklist is
\* empty and every range that was on it has a location.
AllocationLoopDone ==
  /\ phase \in {"RemoveFrameIfNotNeeded", "ResolveControlFlow", "Done"}
  /\ unallocated_ = <<>>
  /\ \A rid \in history.queued : ~IsInvalid(ranges[rid].assigned_location)

\* C20: outside intrinsic mode the allocation loop terminates: the worklist
\* becomes empty, and every range that was ever on the worklist ends with an
\* assigned location.
C20_AllocationTerminates == (~intrinsic_mode_) ~> AllocationLoopDone

\* The loop has ended after it split ranges and pushed their tails back:
\* more ranges were on the worklist than the two passes started with, and a
\* range was spilled.
C20_Witness ==
  /\ ~intrinsic_mode_ /\ AllocationLoopDone /\ spilled_ # <<>>
  /\ history.any_register
  /\ \E rid \in history.queued : rid \in SplitTails /\ IsMachineRegister(ranges[rid].assigned_location)

(***************************************************************************)
(* LiveRange::AddUseInterval on its own: one range, and intervals added    *)
(* to it one call after the other.                                         *)
(***************************************************************************)
\* The positions of the intervals that are added.
MaxIntervalPosition == 7

\* The ASSERTs of AddUseInterval: the interval is not empty; an interval that
\* starts after the first one is added to a blocking range only and ends
\* inside the first one; an interval that is prepended ends before the first
\* one starts.
AddUseIntervalAsserts(r, start, end) ==
  /\ start < end
  /\ r.intervals # <<>> =>
       LET first == r.intervals[1] IN
       /\ start > first.start => r.vreg = kNoVirtualRegister /\ end <= first.end
       /\ (start < first.start /\ end # first.start /\ end # first.end) => end < first.start

IntervalInit ==
  /\ flow_graph_ = FlowGraph(<<>>, <<>>, <<>>, 0)
  /\ phase = "AddUseInterval"
  /\ cursor = [x |-> 0, i |-> -1, interference |-> 0, catch |-> 0]
  /\ start_pos = <<>> /\ end_pos = <<>>
  /\ liveness_ = [live_in |-> <<>>, live_out |-> <<>>, kill |-> <<>>]
  /\ slots = <<>>
  /\ moves = <<>>
  /\ \E vreg \in {kNoVirtualRegister, 1} : ranges = <<NewLiveRange(vreg, "kTagged")>>
  /\ live_ranges_ = <<>>
  /\ cpu_regs_ = <<>> /\ fpu_regs_ = <<>>
  /\ unallocated_cpu_ = <<>> /\ unallocated_fpu_ = <<>>
  /\ safepoints_ = <<>>
  /\ stack_bitmap = <<>>
  /\ backedge_interference = <<>>
  /\ register_kind_ = "Invalid"
  /\ registers_ = <<>> /\ blocked_registers_ = <<>> /\ unallocated_ = <<>>
  /\ spill_slots_ = <<>> /\ quad_spill_slots_ = <<>> /\ untagged_spill_slots_ = <<>>
  /\ spilled_ = <<>>
  /\ cpu_spill_slot_count_ = 0
  /\ intrinsic_mode_ = FALSE
  /\ graph_entry_ = [spill_slot_count |-> 0, frameless |-> FALSE]
  /\ history = [start |-> 0, end |-> 0, before |-> NewLiveRange(kNoVirtualRegister, "kTagged")]

\* One call range->AddUseInterval(start, end); history keeps the arguments
\* and the range as it was before the call.
CallAddUseInterval ==
  \E start \in 0..MaxIntervalPosition : \E end \in 0..MaxIntervalPosition :
     /\ AddUseIntervalAsserts(ranges[1], start, end)
     /\ ranges' = [ranges EXCEPT ![1] = AddUseInterval(@, start, end)]
     /\ history' = [start |-> start, end |-> end, before |-> ranges[1]]
     /\ UNCHANGED <<flow_graph_, phase, cursor, start_pos, end_pos, liveness_, slots, moves,
                    live_ranges_, cpu_regs_, fpu_regs_, unallocated_cpu_, unallocated_fpu_,
                    safepoints_, stack_bitmap, backedge_interference, register_kind_,
                    registers_, blocked_registers_, unallocated_, spill_slots_,
                    quad_spill_slots_, untagged_spill_slots_, spilled_,
                    cpu_spill_slot_count_, intrinsic_mode_, graph_entry_>>

IntervalNext == CallAddUseInterval

IntervalSpec == IntervalInit /\ [][IntervalNext]_vars

\* The last call was made on a range that had a first interval.
AddedToFirstInterval == history.before.intervals # <<>>

GrownTo(r, end) == [r EXCEPT !.intervals[1].end = end]
ExtendedTo(r, start) == [r EXCEPT !.intervals[1].start = start]
Prepended(r, start, end) == [r EXCEPT !.intervals = <<UseInterval(start, end)>> \o @]

\* C21 as stated: AddUseInterval(s, e) on a range whose first interval is
\* [s', e') is a no-op if s > s'; if s = s' it grows the end of the first
\* interval to e when e > e'; if e = s' it extends the start of the first
\* interval to s; in every other case it prepends [s, e).
C21_FourCasesOfAddUseInterval ==
  AddedToFirstInterval =>
    LET r == history.before
        first == r.intervals[1]
        s == history.start
        e == history.end
    IN ranges[1] = IF s > first.start THEN r
                   ELSE IF s = first.start THEN (IF e > first.end THEN GrownTo(r, e) ELSE r)
                   ELSE IF e = first.start THEN ExtendedTo(r, s)
                   ELSE Prepended(r, s, e)

\* C21 amended: the same, except that the start of the first interval is
\* extended to s also when s < s' and e = e'; [s, e) is prepended in the
\* cases that remain, where e < s'.
C21_FiveCasesOfAddUseInterval ==
  AddedToFirstInterval =>
    LET r == history.before
        first == r.intervals[1]
        s == history.start
        e == history.end
    IN /\ ranges[1] = IF s > first.start THEN r
                      ELSE IF s = first.start THEN (IF e > first.end THEN GrownTo(r, e) ELSE r)
                      ELSE IF e = first.start \/ e = first.end THEN ExtendedTo(r, s)
                      ELSE Prepended(r, s, e)
       /\ (s < first.start /\ e # first.start /\ e # first.end) => e < first.start

\* An interval that starts before the first interval and ends where the first
\* interval ends was added to a range with two intervals, and the first
\* interval now starts where the added one starts.
C21_Witness ==
  /\ AddedToFirstInterval /\ Len(history.before.intervals) >= 2
  /\ history.start < history.before.intervals[1].start
  /\ history.end = history.before.intervals[1].end
  /\ ranges[1] = ExtendedTo(history.before, history.start)

(***************************************************************************)
(* LiveRange::SplitAt on its own: one live range with use intervals, use   *)
(* positions and safepoints, split again and again.                        *)
(***************************************************************************)
\* The positions of the range that is split, how many use positions it has
\* at most, and how many times the ranges of its chain are split.
MaxSplitPosition == 6
MaxSplitUses == 2
MaxSplits == 3

\* One to three use intervals that neither overlap nor touch.
SplitIntervals ==
  {[k \in 1..(Cardinality(B) \div 2) |->
       UseInterval(Ascending(B)[2 * k - 1], Ascending(B)[2 * k])] :
     B \in {C \in SUBSET (0..MaxSplitPosition) : Cardinality(C) \in {2, 4, 6}}}

\* The positions at which a range with the intervals ivs can have uses: in an
\* interval or at its end.
UsablePositions(ivs) ==
  {p \in 0..MaxSplitPosition : \E k \in 1..Len(ivs) : ivs[k].start <= p /\ p <= ivs[k].end}

\* The ranges with the intervals ivs that are split: sorted use positions,
\* at most one safepoint, and a finger that was not initialized or points at
\* one of the intervals.
SplitRanges(ivs) ==
  {[NewLiveRange(1, "kTagged") EXCEPT
      !.intervals = ivs,
      !.uses = [k \in 1..Cardinality(U) |-> UsePosition(Ascending(U)[k], NullSlot)],
      !.safepoints = Ascending(S),
      !.finger = IF fp = 0 THEN NullFinger
                 ELSE [Initialize(NewLiveRange(1, "kTagged")).finger
                         EXCEPT !.first_pending_use_interval = fp]] :
     U \in {V \in SUBSET UsablePositions(ivs) : Cardinality(V) <= MaxSplitUses},
     S \in {V \in SUBSET UsablePositions(ivs) : Cardinality(V) <= 1},
     fp \in 0..Len(ivs)}

SplitInit ==
  /\ flow_graph_ = FlowGraph(<<>>, <<>>, <<>>, 0)
  /\ phase = "SplitAt"
  /\ cursor = [x |-> 0, i |-> -1, interference |-> 0, catch |-> 0]
  /\ start_pos = <<>> /\ end_pos = <<>>
  /\ liveness_ = [live_in |-> <<>>, live_out |-> <<>>, kill |-> <<>>]
  /\ slots = <<>>
  /\ moves = <<>>
  /\ \E ivs \in SplitIntervals : \E r \in SplitRanges(ivs) : ranges = <<r>>
  /\ live_ranges_ = <<>>
  /\ cpu_regs_ = <<>> /\ fpu_regs_ = <<>>
  /\ unallocated_cpu_ = <<>> /\ unallocated_fpu_ = <<>>
  /\ safepoints_ = <<>>
  /\ stack_bitmap = <<>>
  /\ backedge_interference = <<>>
  /\ register_kind_ = "Invalid"
  /\ registers_ = <<>> /\ blocked_registers_ = <<>> /\ unallocated_ = <<>>
  /\ spill_slots_ = <<>> /\ quad_spill_slots_ = <<>> /\ untagged_spill_slots_ = <<>>
  /\ spilled_ = <<>>
  /\ cpu_spill_slot_count_ = 0
  /\ intrinsic_mode_ = FALSE
  /\ graph_entry_ = [spill_slot_count |-> 0, frameless |-> FALSE]
  /\ history = [allocated |-> <<>>, fatal |-> FALSE, writes |-> <<>>, any_register |-> FALSE,
                queued |-> {}, splits |-> <<>>,
                split_between |-> <<>>,
                free_register |-> <<>>,
                any_calls |-> <<>>,
                removed |-> <<>>,
                advanced |-> <<>>,
                pending_moves |-> <<>>,
                inserted |-> <<>>,
                reserved |-> <<>>]

\* One call range->SplitAt(split_pos) on a range of the chain, with
\* Start() < split_pos < End().
CallSplitAt ==
  \E rid \in 1..Len(ranges) : \E split_pos \in 0..MaxSplitPosition :
     /\ Len(history.splits) < MaxSplits
     /\ Start(ranges[rid]) < split_pos /\ split_pos < End(ranges[rid])
     /\ Commit(SplitAt(Self, rid, split_pos))

\* One call range->SplitAt(Start()) on a range of the chain, as the last call
\* of a behaviour; history.splits records the range before the call, the
\* range after it and the range that the call returned.
CallSplitAtStart ==
  \E rid \in 1..Len(ranges) :
     /\ Len(history.splits) = MaxSplits - 1
     /\ LET split_pos == Start(ranges[rid])
            B == SplitAt(Self, rid, split_pos)
        IN Commit([B EXCEPT !.history.splits =
                     Append(@, [split_pos |-> split_pos, range |-> ranges[rid],
                                head |-> B.ranges[rid],
                                sibling |-> B.ranges[SplitAtResult(Self, rid, split_pos)]])])

SplitNext == CallSplitAt \/ CallSplitAtStart

SplitSpec == SplitInit /\ [][SplitNext]_vars

\* The calls SplitAt(pos) with Start() < pos < End(), as history.splits
\* recorded them: the range before the call, and the range and its new
\* sibling after it.
InteriorSplits ==
  {e \in SeqToSet(history.splits) : Start(e.range) < e.split_pos /\ e.split_pos < End(e.range)}

UsesBefore(r, pos) == SelectSeq(r.uses, LAMBDA use : use.pos < pos)
UsesFrom(r, pos) == SelectSeq(r.uses, LAMBDA use : use.pos >= pos)
SafepointsBefore(r, pos) == SelectSeq(r.safepoints, LAMBDA p : p < pos)
SafepointsFrom(r, pos) == SelectSeq(r.safepoints, LAMBDA p : p >= pos)

\* split_pos is the start of a use interval of the range.
SplitAtStartOfInterval(e) ==
  \E k \in 1..Len(e.range.intervals) : e.range.intervals[k].start = e.split_pos

\* split_pos is inside a use interval, after its start.
SplitInsideInterval(e) ==
  \E k \in 1..Len(e.range.intervals) :
     e.range.intervals[k].start < e.split_pos /\ e.split_pos < e.range.intervals[k].end

\* split_pos is in a lifetime hole, after the end of the interval before it.
SplitInLifetimeHole(e) == ~SplitAtStartOfInterval(e) /\ ~SplitInsideInterval(e)

\* C22 as stated: SplitAt(pos) with Start() < pos < End() moves the use
\* positions and the safepoints at or after pos to the new sibling and keeps
\* those strictly before pos, wherever pos lies.
C22_PositionsFromSplitMove ==
  \A e \in InteriorSplits :
     /\ e.head.uses = UsesBefore(e.range, e.split_pos)
     /\ e.sibling.uses = UsesFrom(e.range, e.split_pos)
     /\ e.head.safepoints = SafepointsBefore(e.range, e.split_pos)
     /\ e.sibling.safepoints = SafepointsFrom(e.range, e.split_pos)

\* C22 amended: when pos is the start of a use interval, the positions at or
\* after pos move and those before pos stay; when pos is inside an interval
\* or in a lifetime hole, the positions after pos move and those at or before
\* pos stay: a use or safepoint at pos itself stays on the original range.
C22_PositionsAtSplitStayUnlessAtStart ==
  \A e \in InteriorSplits :
     LET from == IF SplitAtStartOfInterval(e) THEN e.split_pos ELSE e.split_pos + 1 IN
     /\ e.head.uses = UsesBefore(e.range, from)
     /\ e.sibling.uses = UsesFrom(e.range, from)
     /\ e.head.safepoints = SafepointsBefore(e.range, from)
     /\ e.sibling.safepoints = SafepointsFrom(e.range, from)

\* A range was split inside a use interval at the position of one of its
\* uses and the use stayed on the range; the sibling was split at the start
\* of an interval and the use at that position moved on; and a range was
\* split in a lifetime hole.
C22_Witness ==
  /\ \E e \in InteriorSplits :
        /\ SplitInsideInterval(e)
        /\ \E k \in 1..Len(e.head.uses) : e.head.uses[k].pos = e.split_pos
        /\ \E k \in 1..Len(e.head.safepoints) : e.head.safepoints[k] = e.split_pos
  /\ \E e \in InteriorSplits :
        /\ SplitAtStartOfInterval(e)
        /\ \E k \in 1..Len(e.sibling.uses) : e.sibling.uses[k].pos = e.split_pos
  /\ \E e \in InteriorSplits : SplitInLifetimeHole(e)

(***************************************************************************)
(* C23: the split positions of SplitBetween.                               *)
(***************************************************************************)
\* Positions from and to lie in the same block.
InSameBlock(from, to) ==
  \E b \in BlockIds : /\ start_pos[b] <= from /\ from < end_pos[b]
                      /\ start_pos[b] <= to /\ to < end_pos[b]

\* C23: every call SplitBetween(range, from, to) that the allocator made split
\* at a position p with from < p <= to, and at the end of the instruction
\* before to, ToInstructionStart(to) - 1, when from and to lie in one block.
C23_SplitBetweenPosition ==
  \A k \in 1..Len(history.split_between) :
     LET c == history.split_between[k] IN
       /\ c.from < c.split_pos /\ c.split_pos <= c.to
       /\ InSameBlock(c.from, c.to) => c.split_pos = ToInstructionStart(c.to) - 1

\* SplitBetween was called with from and to in one block and with from and to
\* in different blocks, and it split a range inside its lifetime.
C23_Witness ==
  /\ \E k \in 1..Len(history.split_between) :
        LET c == history.split_between[k] IN
          /\ InSameBlock(c.from, c.to)
          /\ Start(c.range) < c.split_pos /\ c.split_pos < End(c.range)
  /\ \E k \in 1..Len(history.split_between) :
        LET c == history.split_between[k] IN
          /\ ~InSameBlock(c.from, c.to)
          /\ Start(c.range) < c.split_pos /\ c.split_pos < End(c.range)

(***************************************************************************)
(* C24, C25: AllocateFreeRegister.                                         *)
(***************************************************************************)
FreeRegisterCalls == SeqToSet(history.free_register)

\* Every non-blocked register intersects the range at or before its start.
NoRegisterFreeAtStart(c) ==
  \A reg \in DOMAIN c.intersection : ~c.blocked[reg] => c.intersection[reg] <= c.start

\* C24: when for every non-blocked register the first intersection of the
\* popped range with the ranges allocated to the register is at or before the
\* start of the range, AllocateFreeRegister returns false and leaves the
\* intervals, uses and assigned location of the range, the worklist, the
\* per-register lists and the location slots as they were.
C24_NoFreeRegisterLeavesFrame ==
  \A c \in FreeRegisterCalls :
     NoRegisterFreeAtStart(c) => ~c.found /\ c.after = c.before

\* AllocateFreeRegister returned false for a range that every non-blocked
\* register intersects at or before its start, with a register that is not
\* blocked among them.
C24_Witness ==
  \E c \in FreeRegisterCalls :
     /\ NoRegisterFreeAtStart(c) /\ ~c.found
     /\ \E reg \in DOMAIN c.intersection : ~c.blocked[reg] /\ c.intersection[reg] <= c.start

\* The first hint of the range names a register that is not blocked and whose
\* first intersection with the range lies after the start of the range.
UsableHint(c) ==
  /\ IsMachineRegister(c.hint) /\ c.hint.n \in DOMAIN c.intersection
  /\ ~c.blocked[c.hint.n] /\ c.intersection[c.hint.n] > c.start

\* Another register that is not blocked stays free for longer than the hinted
\* one.
FreeForLonger(c) ==
  {reg \in DOMAIN c.intersection :
     ~c.blocked[reg] /\ c.intersection[reg] > c.intersection[c.hint.n]}

AnyRegisterCalls == SeqToSet(history.any_calls)

\* The largest free_until over the registers that can be evicted, 0 when
\* there is none.
LargestFreeUntil(c) ==
  LET offers == {c.offer[reg].free_until : reg \in {r \in DOMAIN c.offer : c.offer[r].ok}}
  IN IF offers = {} THEN 0 ELSE CHOOSE f \in offers : \A g \in offers : g <= f

\* The range has a use that requires a register, and no register that can be
\* evicted is free until that use.
NoRegisterUntilUse(c) ==
  c.register_use_pos # kIllegalPosition /\ LargestFreeUntil(c) < c.register_use_pos

\* C26: when the largest free_until over the registers that can be evicted is
\* smaller than the position of the first use of the range that requires a
\* register, the range gets no register at its start: its part up to a split
\* position before that use is spilled, the rest is pushed back on the
\* worklist, and the ranges allocated to the registers stay as they were.
C26_SpilledUntilRegisterUse ==
  \A c \in AnyRegisterCalls :
     NoRegisterUntilUse(c) =>
       /\ ~IsMachineRegister(c.after.range.assigned_location)
       /\ HasStackIndex(c.after.range.assigned_location)
       /\ Start(c.after.range) = Start(c.before.range)
       /\ End(c.after.range) < c.register_use_pos
       /\ c.after.sibling # <<>>
       /\ c.after.range.next_sibling \in SeqToSet(c.after.unallocated_)
       /\ c.after.range.next_sibling \notin SeqToSet(c.before.unallocated_)
       /\ End(c.after.range) <= Start(c.after.sibling[1])
       /\ End(c.after.sibling[1]) = End(c.before.range)
       /\ c.after.registers_ = c.before.registers_

\* A range whose first register use no register was free for was spilled up
\* to a position before the use, while a register held a range that could
\* have been evicted.
C26_Witness ==
  \E c \in AnyRegisterCalls :
     /\ NoRegisterUntilUse(c) /\ c.taken = "SpillBetween"
     /\ \E reg \in DOMAIN c.offer : c.offer[reg].ok /\ c.before.registers_[reg] # <<>>
     /\ HasStackIndex(c.after.range.assigned_location)
     /\ c.after.range.next_sibling \in SeqToSet(c.after.unallocated_)

\* The register that AllocateAnyRegister chose is blocked by a blocking range
\* before the end of the range.
BlockedBeforeEnd(c) ==
  c.taken = "AssignNonFreeRegister" /\ c.blocked_at < End(c.before.range)

\* The tail of the split went to the worklist and the head got the register.
TailQueuedHeadAssigned(c) ==
  /\ c.after.sibling # <<>>
  /\ c.after.range.next_sibling \in SeqToSet(c.after.unallocated_)
  /\ c.after.range.next_sibling \notin SeqToSet(c.before.unallocated_)
  /\ End(c.after.sibling[1]) = End(c.before.range)
  /\ End(c.after.range) <= c.split_pos /\ c.split_pos <= Start(c.after.sibling[1])
  /\ IsMachineRegister(c.after.range.assigned_location)
  /\ c.after.range.assigned_location.n = c.candidate
  /\ \E i \in 1..Len(c.after.registers_[c.candidate]) :
        c.after.registers_[c.candidate][i].id = c.id

\* C27 as stated: when the chosen register is blocked at blocked_at before the
\* end of the range, the range is split at blocked_at + 1, the tail is pushed
\* to the worklist and the head receives the register.
C27_SplitAfterBlockedAt ==
  \A c \in AnyRegisterCalls :
     BlockedBeforeEnd(c) => c.split_pos = c.blocked_at + 1 /\ TailQueuedHeadAssigned(c)

\* C27 amended: the range is split where SplitBetween(range, Start(),
\* blocked_at + 1) splits, at a position after the start of the range and at
\* or before blocked_at + 1; the tail is pushed to the worklist and the head
\* receives the register.
C27_SplitAtLatestAfterBlockedAt ==
  \A c \in AnyRegisterCalls :
     BlockedBeforeEnd(c) =>
       /\ Start(c.before.range) < c.split_pos /\ c.split_pos <= c.blocked_at + 1
       /\ TailQueuedHeadAssigned(c)

\* A range got a register that is blocked before its end and was split
\* before the position where the register is blocked.
C27_Witness ==
  \E c \in AnyRegisterCalls :
     BlockedBeforeEnd(c) /\ TailQueuedHeadAssigned(c) /\ c.split_pos < c.blocked_at

(***************************************************************************)
(* C28: AdvanceActiveIntervals.                                            *)
(***************************************************************************)
\* C28: after AdvanceActiveIntervals(start) every range that a per-register
\* list still holds has a first pending use interval, which ends after start,
\* and every range that was removed from a list had all its use slots set to
\* its assigned location when it was removed.
C28_AdvancedListsHoldPendingRanges ==
  /\ \A k \in 1..Len(history.advanced) :
        \A h \in history.advanced[k].held :
           /\ h.first_pending_use_interval # <<>>
           /\ h.first_pending_use_interval[1].end > history.advanced[k].start
  /\ \A k \in 1..Len(history.removed) :
        LET r == history.removed[k] IN
          \A n \in 1..Len(r.slots) : r.slots[n] = r.assigned_location

\* A call kept a range on a list and removed another, a range of a value with
\* uses, whose use slots hold the register it was assigned.
C28_Witness ==
  /\ \E k \in 1..Len(history.advanced) :
        /\ history.advanced[k].held # {}
        /\ history.advanced[k].start < kMaxPosition
        /\ \E j \in 1..Len(history.removed) :
              /\ history.removed[j].start = history.advanced[k].start
              /\ history.removed[j].id \in history.advanced[k].before
              /\ history.removed[j].vreg >= 0
              /\ history.removed[j].slots # <<>>
              /\ IsMachineRegister(history.removed[j].assigned_location)

(***************************************************************************)
(* C29: linear resolution between the siblings of one value.               *)
(***************************************************************************)
\* The pairs of consecutive siblings of the values: range prev and its next
\* sibling.
ConsecutiveSiblings ==
  {[vreg |-> ranges[rid].vreg, prev |-> ranges[rid], next |-> ranges[ranges[rid].next_sibling]] :
     rid \in {r \in 1..Len(ranges) : ranges[r].vreg >= 0 /\ ranges[r].next_sibling # 0}}

\* prev ends where next starts, in a different location, and the location of
\* next is not the spill slot of the value.
TouchingInDifferentLocations(p) ==
  /\ End(p.prev) = Start(p.next)
  /\ p.prev.assigned_location # p.next.assigned_location
  /\ p.next.assigned_location # ranges[live_ranges_[p.vreg]].spill_slot

\* A move from the location of prev to the location of next in the parallel
\* move at the start of next.
MovedAtStartOfNext(p) ==
  \E m \in 1..Len(moves) :
     /\ moves[m].pm = ParallelMove("pos", Start(p.next))
     /\ slots[SrcSlot(m)] = p.prev.assigned_location
     /\ slots[DestSlot(m)] = p.next.assigned_location

\* The same move in the parallel move of the block that starts where next
\* starts.
MovedAtEntryOfNext(p) ==
  /\ IsBlockEntry(Self, Start(p.next))
  /\ \E m \in 1..Len(moves) :
        /\ moves[m].pm = EntryParallelMove(BlockEntryAt(Self, Start(p.next)))
        /\ slots[SrcSlot(m)] = p.prev.assigned_location
        /\ slots[DestSlot(m)] = p.next.assigned_location

\* C29 as stated: for every pair of consecutive siblings of one value that
\* touch, with different locations and the location of next not the spill
\* slot of the value, ResolveControlFlow added a move from the location of
\* prev to the location of next at the start of next.
C29_TouchingSiblingsConnected ==
  Returned =>
    \A p \in ConsecutiveSiblings :
       TouchingInDifferentLocations(p) => MovedAtStartOfNext(p) \/ MovedAtEntryOfNext(p)

\* C29 amended: the move is added when, besides, the position where the
\* siblings touch is not the entry of a block; siblings that touch at the
\* entry of a block are left to the resolution of the edges into the block.
C29_TouchingSiblingsConnectedInsideBlock ==
  Returned =>
    \A p \in ConsecutiveSiblings :
       TouchingInDifferentLocations(p) /\ ~IsBlockEntry(Self, Start(p.next))
         => MovedAtStartOfNext(p)

\* Two siblings that touch inside a block were connected by a move, and two
\* siblings that touch at the entry of a block were not.
C29_Witness ==
  /\ Returned
  /\ \E p \in ConsecutiveSiblings :
        /\ TouchingInDifferentLocations(p) /\ ~IsBlockEntry(Self, Start(p.next))
        /\ MovedAtStartOfNext(p)
  /\ \E p \in ConsecutiveSiblings :
        /\ TouchingInDifferentLocations(p) /\ IsBlockEntry(Self, Start(p.next))
        /\ ~MovedAtStartOfNext(p)

(***************************************************************************)
(* C30: the pending moves of a join.  The graphs above leave no move       *)
(* pending, so the pending moves and the goto parallel moves of the        *)
(* predecessors are drawn from bounded sets here.                          *)
(***************************************************************************)
\* How many moves are pending at the join, and how many moves the goto
\* parallel move of a predecessor holds.
MaxPending == 3
MaxGotoMoves == 1

\* B2 branches to B3 and B4, which end in a goto to the join B5.
JoinGraph ==
  FlowGraph(
    <<GraphEntry(<<>>),
      Block("FunctionEntry", <<1>>, <<3, 4>>, <<>>, <<>>, <<>>),
      Block("TargetEntry", <<2>>, <<5>>, <<>>, <<>>, <<Goto>>),
      Block("TargetEntry", <<2>>, <<5>>, <<>>, <<>>, <<Goto>>),
      Block("JoinEntry", <<3, 4>>, <<>>, <<>>, <<>>, <<>>)>>,
    <<>>, <<>>, 0)

PendingLocations ==
  {RegisterLocation(0), RegisterLocation(1), RegisterLocation(2), StackSlot(first_local_from_fp)}

\* The moves a goto parallel move can hold: redundant ones among them.
GotoMoveLists ==
  UNION {[1..n -> {[dest |-> d, src |-> c] : d \in PendingLocations, c \in PendingLocations}] :
           n \in 0..MaxGotoMoves}

\* The pending moves of a join: every value that is live in has a location of
\* its own at the entry of the join, and a pending move is not redundant.
PendingLists ==
  {pending \in UNION {[1..n -> {[dest |-> d, src |-> c] :
                                  d \in PendingLocations, c \in PendingLocations}] :
                        n \in 1..MaxPending} :
     /\ \A j \in 1..Len(pending) : pending[j].dest # pending[j].src
     /\ \A j, k \in 1..Len(pending) : j # k => pending[j].dest # pending[k].dest}

PendingInit ==
  /\ flow_graph_ = JoinGraph
  /\ phase = "EmitPending"
  /\ cursor = [x |-> 0, i |-> -1, interference |-> 0, catch |-> 0]
  /\ start_pos = <<>> /\ end_pos = <<>>
  /\ liveness_ = [live_in |-> <<>>, live_out |-> <<>>, kill |-> <<>>]
  /\ \E first \in GotoMoveLists : \E second \in GotoMoveLists :
        LET all == first \o second IN
        /\ moves = [m \in 1..Len(all) |->
                      MoveOperands(GotoParallelMove(IF m <= Len(first) THEN 3 ELSE 4))]
        /\ slots = [ptr \in {DestSlot(m) : m \in 1..Len(all)} \cup {SrcSlot(m) : m \in 1..Len(all)} |->
                      IF ptr.t = "dest" THEN all[ptr.b].dest ELSE all[ptr.b].src]
  /\ ranges = <<>>
  /\ live_ranges_ = <<>>
  /\ cpu_regs_ = <<>> /\ fpu_regs_ = <<>>
  /\ unallocated_cpu_ = <<>> /\ unallocated_fpu_ = <<>>
  /\ safepoints_ = <<>>
  /\ stack_bitmap = <<>>
  /\ backedge_interference = <<>>
  /\ register_kind_ = "Invalid"
  /\ registers_ = <<>> /\ blocked_registers_ = <<>> /\ unallocated_ = <<>>
  /\ spill_slots_ = <<>> /\ quad_spill_slots_ = <<>> /\ untagged_spill_slots_ = <<>>
  /\ spilled_ = <<>>
  /\ cpu_spill_slot_count_ = 0
  /\ intrinsic_mode_ = FALSE
  /\ graph_entry_ = [spill_slot_count |-> 0, frameless |-> FALSE]
  /\ history = [allocated |-> <<>>, fatal |-> FALSE, writes |-> <<>>, any_register |-> FALSE,
                queued |-> {}, splits |-> <<>>,
                split_between |-> <<>>,
                free_register |-> <<>>,
                any_calls |-> <<>>,
                removed |-> <<>>,
                advanced |-> <<>>,
                pending_moves |-> <<>>,
                inserted |-> <<>>,
                reserved |-> <<>>]

\* The end of the loop body of ResolveControlFlow for the join, the last
\* block, with the pending moves that its live-in values left.
CallEmitPending ==
  \E pending \in PendingLists :
     /\ history.pending_moves = <<>>
     /\ Commit(EmitPending(Self, BlockCount, pending))

PendingNext == CallEmitPending

PendingSpec == PendingInit /\ [][PendingNext]_vars

\* A move of the goto parallel move of a predecessor that is not redundant
\* writes the location.
WrittenInPredecessor(e, loc) ==
  \E p \in 1..Len(Blocks[e.block].preds) :
     \E m \in 1..Len(e.before) :
        /\ e.before[m].pm = GotoParallelMove(Blocks[e.block].preds[p])
        /\ ~IsInvalid(e.before[m].src) /\ e.before[m].src # e.before[m].dest
        /\ e.before[m].dest = loc

\* The pending moves that are blocked: their source is written in a
\* predecessor or by a blocked pending move.
RECURSIVE BlockedPending(_, _)
BlockedPending(e, blocked) ==
  LET more == blocked \cup {j \in 1..Len(e.pending) :
                              \/ WrittenInPredecessor(e, e.pending[j].src)
                              \/ \E k \in blocked : e.pending[k].dest = e.pending[j].src}
  IN IF more = blocked THEN blocked ELSE BlockedPending(e, more)

\* How many of the moves that were emitted are pending move j in parallel
\* move pm.
EmittedIn(e, j, pm) ==
  Cardinality({m \in (Len(e.before) + 1)..Len(e.after) :
                 /\ e.after[m].pm = pm
                 /\ e.after[m].dest = e.pending[j].dest
                 /\ e.after[m].src = e.pending[j].src})

\* C30: a pending move is emitted once in the entry parallel move of the
\* successor when no move that is not redundant in the goto parallel move of a
\* predecessor and no blocked pending move writes its source; otherwise it is
\* emitted once on every incoming edge and not in the successor.  No pending
\* move is emitted both ways or dropped.
C30_PendingMovesEmittedOneWay ==
  \A n \in 1..Len(history.pending_moves) :
     LET e == history.pending_moves[n]
         preds == Blocks[e.block].preds
     IN /\ Len(e.after) >= Len(e.before)
        /\ SubSeq(e.after, 1, Len(e.before)) = e.before
        /\ \A j \in 1..Len(e.pending) :
              IF j \in BlockedPending(e, {})
                THEN /\ EmittedIn(e, j, EntryParallelMove(e.block)) = 0
                     /\ \A p \in 1..Len(preds) :
                           EmittedIn(e, j, GotoParallelMove(preds[p])) = 1
                ELSE /\ EmittedIn(e, j, EntryParallelMove(e.block)) = 1
                     /\ \A p \in 1..Len(preds) :
                           EmittedIn(e, j, GotoParallelMove(preds[p])) = 0

\* Of three pending moves one went into the entry parallel move of the join
\* and two went on every incoming edge: one whose source a predecessor writes,
\* and one whose source only that blocked pending move writes.
C30_Witness ==
  \E n \in 1..Len(history.pending_moves) :
     LET e == history.pending_moves[n]
         OnEveryEdge(j) ==
           \A p \in 1..Len(Blocks[e.block].preds) :
              EmittedIn(e, j, GotoParallelMove(Blocks[e.block].preds[p])) = 1
     IN \E i, j, k \in 1..Len(e.pending) :
           /\ i \notin BlockedPending(e, {})
           /\ EmittedIn(e, i, EntryParallelMove(e.block)) = 1
           /\ WrittenInPredecessor(e, e.pending[k].src) /\ OnEveryEdge(k)
           /\ ~WrittenInPredecessor(e, e.pending[j].src)
           /\ e.pending[k].dest = e.pending[j].src /\ OnEveryEdge(j)

(***************************************************************************)
(* Ties in the worklist.                                                   *)
(***************************************************************************)
\* The place of the last insertion of the range rid in history.inserted, the
\* order in which AddToSortedListOfRanges was called; 0 when it never was.
InsertedAt(rid) ==
  LET at == {k \in 1..Len(history.inserted) : history.inserted[k] = rid}
  IN IF at = {} THEN 0 ELSE CHOOSE k \in at : \A l \in at : l <= k

\* The pairs of places i < j of the worklist that hold ranges with the same
\* start position.  RemoveLast pops the range at j before the range at i.
WorklistTies ==
  {p \in (1..Len(unallocated_)) \X (1..Len(unallocated_)) :
     /\ p[1] < p[2]
     /\ Start(ranges[unallocated_[p[1]]]) = Start(ranges[unallocated_[p[2]]])}

\* C31 as stated: of two queued ranges with the same start position, the one
\* that was inserted into the worklist earlier is popped earlier.
C31_TiesPoppedInInsertionOrder ==
  \A p \in WorklistTies :
     InsertedAt(unallocated_[p[2]]) < InsertedAt(unallocated_[p[1]])

\* C31, amended: of two queued ranges with the same start position, the one
\* that was inserted into the worklist later is popped earlier (the range is
\* inserted behind every queued range that does not start before it, and the
\* allocation loop pops from the back).
C31_TiesPoppedInReverseInsertionOrder ==
  \A p \in WorklistTies :
     /\ InsertedAt(unallocated_[p[1]]) > 0
     /\ InsertedAt(unallocated_[p[1]]) < InsertedAt(unallocated_[p[2]])

\* The allocation loop is running, a tail that was split off and queued by it
\* starts where a range that was queued during live range construction
\* starts, and the tail is the next range to be popped.
C31_Witness ==
  /\ phase \in {"AllocateCpu", "AllocateFpu"}
  /\ \E p \in WorklistTies :
        /\ p[2] = Len(unallocated_)
        /\ unallocated_[p[2]] \in SplitTails
        /\ unallocated_[p[1]] \notin SplitTails

(***************************************************************************)
(* C32: a value that is live across a call.                                *)
(***************************************************************************)
\* The places [b, i, v] of the scenario: instruction i of block b defines v
\* into a required register, instruction i + 1 always calls, clobbers the
\* registers and does not read v, and instruction i + 2 reads v in a required
\* register.  With d the position of the definition, the call is at d + 2 and
\* the reading instruction at d + 4; the scenario names the positions for
\* d = 2.
DefinedBeforeCall ==
  {p \in UNION {{[b |-> b, i |-> i, v |-> InstrAt(b, i).vreg] : i \in 1..Len(Body(b))} :
                  b \in BlockIds} :
     /\ p.i + 2 <= Len(Body(p.b))
     /\ p.v \in DOMAIN live_ranges_ /\ InstrAt(p.b, p.i).out = RequiresRegister
     /\ InstrAt(p.b, p.i + 1).always_calls /\ ~InstrAt(p.b, p.i + 1).callee_safe_call
     /\ ~Reads(p.b, p.i + 1, p.v)
     /\ \E j \in 1..Len(InstrAt(p.b, p.i + 2).ins) :
           InstrAt(p.b, p.i + 2).ins[j] = In(p.v, RequiresRegister)}

DefinitionPosition(p) == start_pos[p.b] + 2 * p.i

\* A move from the location from to the location to in the parallel move at
\* the position pos.
MovedAt(pos, from, to) ==
  \E m \in 1..Len(moves) :
     /\ moves[m].pm = ParallelMove("pos", pos)
     /\ slots[SrcSlot(m)] = from /\ slots[DestSlot(m)] = to

\* C32: in the scenario 'call across live value' with the definition at d,
\* the call at d + 2 and the register use by the instruction at d + 4, the
\* value is split at d + 2: its first range covers [d, d + 2) and is assigned
\* a register, the sibling that starts at d + 2 covers the call and is
\* assigned the spill slot of the value, a move from the register to the
\* spill slot is at d + 1, and a move from the spill slot to a register is at
\* d + 3.
C32_CallAcrossLiveValue ==
  Returned =>
    \A p \in DefinedBeforeCall :
       LET d == DefinitionPosition(p)
           head == ranges[live_ranges_[p.v]]
           tail == ranges[head.next_sibling]
       IN /\ Start(head) = d /\ End(head) = d + 2
          /\ IsMachineRegister(head.assigned_location)
          /\ head.next_sibling # 0
          /\ Start(tail) = d + 2 /\ End(tail) = d + 3
          /\ HasStackIndex(head.spill_slot)
          /\ tail.assigned_location = head.spill_slot
          /\ MovedAt(d + 1, head.assigned_location, head.spill_slot)
          /\ tail.next_sibling # 0
          /\ IsMachineRegister(ranges[tail.next_sibling].assigned_location)
          /\ MovedAt(d + 3, head.spill_slot, ranges[tail.next_sibling].assigned_location)

\* The scenario with nothing else in a register or spilled: the value is in
\* register 0 up to the call and in the first spill slot over the call.
C32_Witness ==
  /\ Returned
  /\ \E p \in DefinedBeforeCall :
        LET d == DefinitionPosition(p)
            head == ranges[live_ranges_[p.v]]
        IN /\ head.assigned_location = RegisterLocation(0)
           /\ head.spill_slot = StackSlot(FrameSlotForVariableIndex(0))
           /\ MovedAt(d + 1, RegisterLocation(0), head.spill_slot)
           /\ \E reg \in 0..(kNumberOfCpuRegisters - 1) :
                 MovedAt(d + 3, head.spill_slot, RegisterLocation(reg))

(***************************************************************************)
(* C33: a phi over two predecessors.                                       *)
(***************************************************************************)
\* The phis [join, k] of the joins of two blocks that are no loop headers,
\* with inputs that are no constants.
PhiJoins ==
  {p \in UNION {{[join |-> b, k |-> k] : k \in 1..Len(Blocks[b].phis)} :
                  b \in {c \in BlockIds : /\ IsJoinEntry(c) /\ ~Blocks[c].header
                                          /\ Len(Blocks[c].preds) = 2}} :
     \A i \in 1..2 : ~IsConstantDefinition(Blocks[p.join].phis[p.k].inputs[i])}

PhiVreg(p) == Blocks[p.join].phis[p.k].vreg
PhiInput(p, i) == Blocks[p.join].phis[p.k].inputs[i]

\* The move of the phi in the parallel move of the goto of predecessor i: its
\* source is the use of the input at the goto, its destination the use of the
\* phi at the start of the join.
PhiMove(p, i) == MoveOperandsAt(Self, GotoParallelMove(Blocks[p.join].preds[i]), p.k)
PhiSource(p, i) == slots[SrcSlot(PhiMove(p, i))]
PhiDestination(p, i) == slots[DestSlot(PhiMove(p, i))]

\* Both inputs are in register 0 at the end of their predecessors.
InputsInR0(p) == \A i \in 1..2 : PhiSource(p, i) = RegisterLocation(0)

\* The uses of v that write the location slot.
UsesOfSlot(v, slot) ==
  UNION {{ranges[s].uses[k] : k \in {j \in 1..Len(ranges[s].uses) :
                                       ranges[s].uses[j].location_slot = slot}} :
         s \in Chain(v)}

\* The calls of AllocateFreeRegister on the range of the phi.
PhiCalls(p) ==
  {c \in FreeRegisterCalls : c.vreg = PhiVreg(p) /\ c.start = start_pos[p.join]}

\* C33 as stated: when both inputs of the phi are assigned R0 at the end of
\* their predecessors, the allocator has the hint R0 for the phi, the phi is
\* assigned R0, and the moves of the phi on both incoming edges are redundant.
C33_PhiTakesRegisterOfInputs ==
  Returned =>
    \A p \in PhiJoins :
       InputsInR0(p) =>
         /\ \A c \in PhiCalls(p) : c.hint = RegisterLocation(0)
         /\ \A i \in 1..2 : PhiDestination(p, i) = RegisterLocation(0)

\* C33 amended: the hint goes from the phi to its inputs.  The uses of the
\* phi at the start of the join carry no hint, the use of each input at the
\* goto is hinted with the assigned location of the phi; the phi is assigned
\* the register of its own usable hint (when no register is free for longer)
\* whatever register the inputs are in.  With both inputs in R0, the moves of
\* the phi are redundant when the phi is assigned R0, and both incoming edges
\* carry the move from R0 to the location of the phi when it is not.
C33_PhiHintsItsInputs ==
  Returned =>
    \A p \in PhiJoins :
       LET phi == ranges[live_ranges_[PhiVreg(p)]].assigned_location IN
       /\ \A i \in 1..2 :
             /\ UsesOfSlot(PhiVreg(p), DestSlot(PhiMove(p, i))) # {}
             /\ \A u \in UsesOfSlot(PhiVreg(p), DestSlot(PhiMove(p, i))) :
                   u.hint = NullSlot /\ u.pos = start_pos[p.join]
             /\ UsesOfSlot(PhiInput(p, i), SrcSlot(PhiMove(p, i))) # {}
             /\ \A u \in UsesOfSlot(PhiInput(p, i), SrcSlot(PhiMove(p, i))) :
                   u.hint = AssignedLocationSlot(live_ranges_[PhiVreg(p)])
             /\ PhiDestination(p, i) = phi
       /\ \A c \in PhiCalls(p) :
             UsableHint(c) /\ FreeForLonger(c) = {} => phi = c.hint
       /\ InputsInR0(p) =>
             \A i \in 1..2 :
                \/ PhiDestination(p, i) = PhiSource(p, i)
                \/ HasMove(GotoParallelMove(Blocks[p.join].preds[i]), phi, RegisterLocation(0))

\* Both inputs of a phi are in R0, the phi has a use in the fixed register R1
\* and so the hint R1, it is assigned R1, and both incoming edges carry the
\* move from R0 to R1.
C33_Witness ==
  /\ Returned
  /\ \E p \in PhiJoins :
        /\ InputsInR0(p)
        /\ \E c \in PhiCalls(p) : c.hint = RegisterLocation(1)
        /\ \A i \in 1..2 :
              /\ PhiDestination(p, i) = RegisterLocation(1)
              /\ HasMove(GotoParallelMove(Blocks[p.join].preds[i]),
                         RegisterLocation(1), RegisterLocation(0))

(***************************************************************************)
(* C34: a fixed-register output read by a fixed-register input.            *)
(***************************************************************************)
\* v is read by instruction i of block b only, by one input and by no
\* environment, and is no input of a phi.
OnlyReadBy(v, b, i) ==
  /\ Cardinality({j \in 1..Len(InstrAt(b, i).ins) : InstrAt(b, i).ins[j].vreg = v}) = 1
  /\ v \notin SeqToSet(InstrAt(b, i).env)
  /\ \A c \in BlockIds :
        /\ \A k \in 1..Len(Body(c)) : Reads(c, k, v) => c = b /\ k = i
        /\ \A k \in 1..Len(Blocks[c].phis) : v \notin SeqToSet(Blocks[c].phis[k].inputs)

\* The places [b, i, v] of the scenario: instruction i of block b produces v
\* in a fixed register, and the only use of v is an input of instruction
\* i + 1 that is fixed to the same register.
FixedOutputThenFixedInput ==
  {p \in UNION {{[b |-> b, i |-> i, v |-> InstrAt(b, i).vreg] : i \in 1..Len(Body(b))} :
                  b \in BlockIds} :
     /\ p.i + 1 <= Len(Body(p.b))
     /\ p.v \in DOMAIN live_ranges_ /\ IsMachineRegister(InstrAt(p.b, p.i).out)
     /\ OnlyReadBy(p.v, p.b, p.i + 1)
     /\ \E j \in 1..Len(InstrAt(p.b, p.i + 1).ins) :
           InstrAt(p.b, p.i + 1).ins[j] = In(p.v, InstrAt(p.b, p.i).out)}

\* The moves in the parallel move at the position pos.
MovesAtPosition(pos) == {m \in 1..Len(moves) : moves[m].pm = ParallelMove("pos", pos)}

\* C34: in the scenario 'fixed-register output then fixed-register input',
\* with v produced at pos in the register R: the use of v, recorded at
\* pos + 1 on the source of the move into the fixed input, is written R by
\* ProcessOneOutput and by nothing else; the range of v is empty, has no use
\* left, is never queued and is assigned no location; and no move at pos + 1
\* goes from R to another location.
C34_FixedOutputFeedsFixedInput ==
  Returned =>
    \A p \in FixedOutputThenFixedInput :
       LET pos == DefinitionPosition(p)
           fixed == InstrAt(p.b, p.i).out
           rid == live_ranges_[p.v]
       IN /\ \E m \in MovesAtPosition(pos + 1) :
                /\ slots[DestSlot(m)] = fixed /\ slots[SrcSlot(m)] = fixed
                /\ SrcSlot(m) \in DOMAIN history.writes
                /\ history.writes[SrcSlot(m)] = <<"ProcessOneOutput">>
          /\ \A m \in MovesAtPosition(pos + 1) :
                slots[SrcSlot(m)] = fixed => slots[DestSlot(m)] = fixed
          /\ rid # 0
          /\ Start(ranges[rid]) = End(ranges[rid])
          /\ ranges[rid].uses = <<>> /\ ranges[rid].next_sibling = 0
          /\ IsInvalid(ranges[rid].assigned_location)
          /\ rid \notin history.queued /\ rid \notin SeqToSet(history.inserted)
          /\ \A k \in 1..Len(history.free_register) : history.free_register[k].vreg # p.v
          /\ \A k \in 1..Len(history.any_calls) : history.any_calls[k].id # rid

\* The scenario happened: a value was produced in a fixed register and read
\* from it by the next instruction, and the move into the input is from the
\* register to itself.
C34_Witness ==
  /\ Returned
  /\ \E p \in FixedOutputThenFixedInput :
        /\ IsRegister(InstrAt(p.b, p.i).out)
        /\ \E m \in MovesAtPosition(DefinitionPosition(p) + 1) :
              /\ slots[DestSlot(m)] = InstrAt(p.b, p.i).out
              /\ slots[SrcSlot(m)] = InstrAt(p.b, p.i).out
        /\ Start(ranges[live_ranges_[p.v]]) = DefinitionPosition(p) + 1

(***************************************************************************)
(* C35: a writable input.                                                  *)
(***************************************************************************)
\* The inputs [b, i, j] that the location summaries want in a writable
\* register.
WritableInputs ==
  UNION {UNION {{[b |-> b, i |-> i, j |-> j] :
                   j \in {k \in 1..Len(InstrAt(b, i).ins) :
                            InstrAt(b, i).ins[k].loc = WritableRegister}} :
                i \in 1..Len(Body(b))} :
         b \in BlockIds}

InputSlot(p) == SlotPtr("in", p.b, p.i, p.j)
InputPosition(p) == start_pos[p.b] + 2 * p.i

\* The ranges of temporaries that have a use of the input slot of p.
TemporariesOf(p) ==
  {rid \in 1..Len(ranges) :
     /\ ranges[rid].vreg = kTempVirtualRegister
     /\ \E k \in 1..Len(ranges[rid].uses) : ranges[rid].uses[k].location_slot = InputSlot(p)}

\* The moves at the position of the instruction whose destination is a use of
\* the temporary rid.
CopiesInto(p, rid) ==
  {m \in MovesAtPosition(InputPosition(p)) :
     \E k \in 1..Len(ranges[rid].uses) : ranges[rid].uses[k].location_slot = DestSlot(m)}

\* The calls of AllocateFreeRegister on the temporary of p.
TemporaryCalls(p) ==
  {c \in FreeRegisterCalls :
     /\ c.vreg = kTempVirtualRegister /\ c.start = InputPosition(p)
     /\ \E k \in 1..Len(c.before.uses) : c.before.uses[k].location_slot = InputSlot(p)}

\* C35 as stated: the temporary of a writable input receives a register
\* different from the register holding the value, a move from the location of
\* the value to that register is placed at the position of the instruction,
\* and the input slot ends up as that register.
C35_TemporaryInFreshRegister ==
  Returned =>
    \A p \in WritableInputs : \A rid \in TemporariesOf(p) : \A m \in CopiesInto(p, rid) :
       /\ IsMachineRegister(ranges[rid].assigned_location)
       /\ ranges[rid].assigned_location # slots[SrcSlot(m)]
       /\ slots[DestSlot(m)] = ranges[rid].assigned_location
       /\ slots[InputSlot(p)] = ranges[rid].assigned_location

\* C35 amended: a writable input at pos gets one temporary range [pos, pos + 1)
\* whose use of the input slot is hinted with the source of the move at pos,
\* that is with the location of the value.  The temporary is assigned a
\* register, which the input slot and the destination of the move end up as;
\* the source of the move is the location of the value at pos.  The hint the
\* allocator has for the temporary is the location of the value or, while the
\* range of the value is not finished, none; it is the register of the value
\* when the value is not live after pos.  When the hinted register is free at
\* pos and no other register is free for longer, the temporary is assigned
\* the register of the value itself, so the move is redundant.
C35_TemporaryHintedToValue ==
  Returned =>
    \A p \in WritableInputs :
       /\ Cardinality(TemporariesOf(p)) = 1
       /\ \A rid \in TemporariesOf(p) :
             LET temp == ranges[rid]
                 value == InstrAt(p.b, p.i).ins[p.j].vreg
             IN /\ temp.intervals = <<UseInterval(InputPosition(p), InputPosition(p) + 1)>>
                /\ IsMachineRegister(temp.assigned_location)
                /\ slots[InputSlot(p)] = temp.assigned_location
                /\ Cardinality(CopiesInto(p, rid)) = 1
                /\ \A m \in CopiesInto(p, rid) :
                      /\ slots[DestSlot(m)] = temp.assigned_location
                      /\ \E u \in UsesOfSlot(value, SrcSlot(m)) : u.pos = InputPosition(p)
                      /\ \E k \in 1..Len(temp.uses) :
                            /\ temp.uses[k].location_slot = InputSlot(p)
                            /\ temp.uses[k].hint = SrcSlot(m)
                      /\ \A c \in TemporaryCalls(p) :
                            /\ c.hint \in {NoLocation, slots[SrcSlot(m)]}
                            /\ (/\ IsMachineRegister(slots[SrcSlot(m)])
                                /\ \A s \in Chain(value) : End(ranges[s]) <= InputPosition(p))
                                 => c.hint = slots[SrcSlot(m)]
                            /\ UsableHint(c) /\ FreeForLonger(c) = {}
                                 => temp.assigned_location = slots[SrcSlot(m)]

\* The value of a writable input is in a register and dead after the
\* instruction: the temporary was hinted with that register and assigned it,
\* and the move at the instruction is from the register to itself.
C35_Witness ==
  /\ Returned
  /\ \E p \in WritableInputs : \E rid \in TemporariesOf(p) : \E m \in CopiesInto(p, rid) :
        /\ IsMachineRegister(slots[SrcSlot(m)])
        /\ \E c \in TemporaryCalls(p) : c.hint = slots[SrcSlot(m)] /\ UsableHint(c)
        /\ ranges[rid].assigned_location = slots[SrcSlot(m)]
        /\ slots[DestSlot(m)] = slots[SrcSlot(m)]
        /\ slots[InputSlot(p)] = slots[SrcSlot(m)]

(***************************************************************************)
(* C36: a definition with no uses.                                         *)
(***************************************************************************)
\* The definitions [b, i, v] in the body of a block whose value v no
\* instruction, environment or phi reads.
UnusedDefinitions ==
  {p \in UNION {{[b |-> b, i |-> i, v |-> InstrAt(b, i).vreg] : i \in 1..Len(Body(b))} :
                  b \in BlockIds} :
     /\ p.v \in DOMAIN live_ranges_
     /\ \A c \in BlockIds :
           /\ \A k \in 1..Len(Body(c)) : ~Reads(c, k, p.v)
           /\ \A k \in 1..Len(Blocks[c].phis) : p.v \notin SeqToSet(Blocks[c].phis[k].inputs)}

UnusedConstants == {p \in UnusedDefinitions : InstrAt(p.b, p.i).op = "Constant"}
UnusedValues == UnusedDefinitions \ UnusedConstants

\* The range of the definition p was never put on a worklist.
NeverQueued(p) ==
  \A k \in 1..Len(history.inserted) : ranges[history.inserted[k]].vreg # p.v

\* C36 as stated: a definition with no uses that is a constant is dropped,
\* its output set to no location and nothing queued; one that is not a
\* constant gets the range [pos, pos + 1) and the location assigned to the
\* range is a spill slot, not a register.
C36_UnusedDefinitionDroppedOrSpilled ==
  Returned =>
    /\ \A p \in UnusedConstants :
          slots[SlotPtr("out", p.b, p.i, 0)] = NoLocation /\ NeverQueued(p)
    /\ \A p \in UnusedValues :
          /\ live_ranges_[p.v] # 0
          /\ ranges[live_ranges_[p.v]].intervals
               = <<UseInterval(DefinitionPosition(p), DefinitionPosition(p) + 1)>>
          /\ HasStackIndex(ranges[live_ranges_[p.v]].assigned_location)

\* C36 amended: a constant with no uses is dropped before DefineAt is reached:
\* its output is set to no location, its range has no use interval and no
\* location and is never queued.  A definition that is not a constant and
\* whose output requires a register gets the range [pos, pos + 1) with the
\* use of the output at pos; the range is queued and assigned a register,
\* which the output ends up as, and it is never split and gets no spill slot.
\* A definition that is not a constant and whose output is a fixed register
\* keeps that output; its range has no use interval and no location and is
\* never queued.
C36_UnusedDefinitionDroppedOrInRegister ==
  Returned =>
    /\ \A p \in UnusedConstants :
          /\ slots[SlotPtr("out", p.b, p.i, 0)] = NoLocation
          /\ NeverQueued(p)
          /\ live_ranges_[p.v] # 0
          /\ ranges[live_ranges_[p.v]].intervals = <<>>
          /\ IsInvalid(ranges[live_ranges_[p.v]].assigned_location)
    /\ \A p \in UnusedValues :
          LET out == SlotPtr("out", p.b, p.i, 0)
              pos == DefinitionPosition(p)
              range == ranges[live_ranges_[p.v]]
          IN /\ live_ranges_[p.v] # 0
             /\ InstrAt(p.b, p.i).out \in {RequiresRegister, RequiresFpuRegister} =>
                   /\ range.intervals = <<UseInterval(pos, pos + 1)>>
                   /\ range.uses = <<UsePosition(pos, out)>>
                   /\ ~NeverQueued(p)
                   /\ IsMachineRegister(range.assigned_location)
                   /\ slots[out] = range.assigned_location
                   /\ range.next_sibling = 0
                   /\ IsInvalid(range.spill_slot)
             /\ IsMachineRegister(InstrAt(p.b, p.i).out) =>
                   /\ slots[out] = InstrAt(p.b, p.i).out
                   /\ range.intervals = <<>>
                   /\ NeverQueued(p)
                   /\ IsInvalid(range.assigned_location)

\* A constant with no uses was dropped, and the range [pos, pos + 1) of a
\* value with no uses was assigned a register.
C36_Witness ==
  /\ Returned
  /\ \E p \in UnusedConstants : slots[SlotPtr("out", p.b, p.i, 0)] = NoLocation
  /\ \E p \in UnusedValues :
        /\ InstrAt(p.b, p.i).out = RequiresRegister
        /\ ranges[live_ranges_[p.v]].intervals
             = <<UseInterval(DefinitionPosition(p), DefinitionPosition(p) + 1)>>
        /\ IsMachineRegister(ranges[live_ranges_[p.v]].assigned_location)

(***************************************************************************)
(* C37: no spill slot holds two values at the same time.                   *)
(***************************************************************************)
\* The virtual registers whose parent range was given a slot of the spill
\* area, by AllocateSpillSlotFor or as an initial definition.
SlotHolders ==
  {v \in DOMAIN live_ranges_ :
     /\ live_ranges_[v] # 0
     /\ ranges[live_ranges_[v]].intervals # <<>>
     /\ HasStackIndex(ranges[live_ranges_[v]].spill_slot)
     /\ ranges[live_ranges_[v]].spill_slot.n <= first_local_from_fp}

\* The lifetime of v: from the start of the parent range to the end of its
\* last sibling.
Lifetime(v) ==
  [start |-> Start(ranges[live_ranges_[v]]),
   end |-> End(ranges[LastSibling(ranges, live_ranges_[v])])]

\* The expiry positions a call left are at least the ones it found.
ExpiryKept(before, after) ==
  /\ Len(before) <= Len(after)
  /\ \A k \in 1..Len(before) : before[k] <= after[k]

TurnsOfPass ==
  SelectSeq(history.advanced, LAMBDA e : e.kind = register_kind_)

\* The ranges put on the worklist by SplitAt, SplitBetween and the evictions
\* of the turns of the allocation loop.
PushedTails == {rid \in SeqToSet(unallocated_) : rid \in SplitTails}

\* C38: within a pass the start positions of the ranges popped by the
\* allocation loop never decrease, and while the loop runs every range on the
\* worklist, the tails pushed while the last popped range was processed
\* included, starts at or after the start of the last popped range.
C38_AllocationCursorMonotonic ==
  phase \in {"AllocateCpu", "AllocateFpu"} =>
    /\ \A k \in 1..(Len(TurnsOfPass) - 1) : TurnsOfPass[k].start <= TurnsOfPass[k + 1].start
    /\ TurnsOfPass # <<>> =>
          \A k \in 1..Len(unallocated_) :
             TurnsOfPass[Len(TurnsOfPass)].start <= Start(ranges[unallocated_[k]])

\* The allocation loop has popped ranges with different starts, the last one
\* had no free register, and the tail of a range split in that turn is on
\* the worklist.
C38_Witness ==
  /\ phase \in {"AllocateCpu", "AllocateFpu"}
  /\ Len(TurnsOfPass) >= 2
  /\ TurnsOfPass[1].start < TurnsOfPass[Len(TurnsOfPass)].start
  /\ history.free_register # <<>>
  /\ ~history.free_register[Len(history.free_register)].found
  /\ history.inserted # <<>>
  /\ history.inserted[Len(history.inserted)] \in PushedTails

(***************************************************************************)
(* C39: SplitAt loses nothing.                                             *)
(***************************************************************************)
\* The positions that the use intervals ivs cover.
Covered(ivs) == UNION {ivs[k].start..(ivs[k].end - 1) : k \in 1..Len(ivs)}

\* The calls SplitAt(Start()), as history.splits recorded them.
SplitsAtStart == {e \in SeqToSet(history.splits) : e.split_pos = Start(e.range)}

\* C39: for Start() < pos < End(), the positions covered by the use intervals
\* of the range before SplitAt(pos) are those covered by the intervals of the
\* head and of the new sibling together, the intervals of the head end at or
\* before pos and those of the sibling start at or after pos, and the use and
\* safepoint lists of the head followed by those of the sibling are the lists
\* the range had; SplitAt(Start()) returns the range itself, leaves it as it
\* was and adds no range.
C39_SplitAtLosesNothing ==
  /\ \A e \in InteriorSplits :
        /\ Covered(e.range.intervals) = Covered(e.head.intervals) \cup Covered(e.sibling.intervals)
        /\ e.head.intervals # <<>> /\ e.sibling.intervals # <<>>
        /\ \A k \in 1..Len(e.head.intervals) : e.head.intervals[k].end <= e.split_pos
        /\ \A k \in 1..Len(e.sibling.intervals) : e.split_pos <= e.sibling.intervals[k].start
        /\ e.head.uses \o e.sibling.uses = e.range.uses
        /\ e.head.safepoints \o e.sibling.safepoints = e.range.safepoints
  /\ \A e \in SplitsAtStart : e.head = e.range /\ e.sibling = e.range
  /\ phase = "SplitAt" =>
        Len(ranges) = 1 + Len(SelectSeq(history.splits,
                                        LAMBDA e : e.split_pos # Start(e.range)))

\* A range with uses and a safepoint on both sides was split inside a use
\* interval, a range was split in a lifetime hole, and SplitAt(Start()) was
\* called on a range.
C39_Witness ==
  /\ \E e \in InteriorSplits :
        /\ SplitInsideInterval(e)
        /\ e.head.uses # <<>> /\ e.sibling.uses # <<>>
        /\ Len(e.range.intervals) + 1 = Len(e.head.intervals) + Len(e.sibling.intervals)
  /\ \E e \in InteriorSplits : SplitInLifetimeHole(e)
  /\ SplitsAtStart # {}

(***************************************************************************)
(* C40: the spill slots of the two passes.                                 *)
(***************************************************************************)
\* The entries of history.allocated for ranges of an unboxed floating point
\* representation, and those for the other ranges.
FpSlots == {e \in SeqToSet(history.allocated) : e.representation \notin WordRepresentations}
GpSlots == SeqToSet(history.allocated) \ FpSlots

\* The variable indices of the frame that the spill location of e occupies:
\* one word for a word-sized value, kDoubleSpillFactor words for every double
\* slot, the location naming the highest index.
VariableIndices(e) ==
  LET top == -VariableIndexForFrameSlot(e.location.n)
      words == IF e \in GpSlots THEN 1 ELSE (e.last - e.first + 1) * kDoubleSpillFactor
  IN (top - words + 1)..top

\* The number of slots in the spill table when the CPU pass ended.
SlotsOfCpuPass ==
  LET lengths == {Len(e.after.expiry) : e \in {f \in SeqToSet(history.allocated) :
                                                 f.kind # "FpuRegister"}}
                   \cup {Len(history.reserved[k].after) : k \in 1..Len(history.reserved)}
                   \cup {0}
  IN CHOOSE n \in lengths : \A m \in lengths : m <= n

\* C40: the spill slots of the CPU pass are all allocated before those of the
\* FPU pass; when the FPU pass starts, cpu_spill_slot_count_ is the larger of
\* the number of slots in the spill table of the CPU pass and
\* fixed_slot_count, and the spill table is empty; the spill locations of the
\* word-sized values occupy variable indices below cpu_spill_slot_count_ and
\* those of the unboxed floating point values indices at or above it, so no
\* index is occupied by both; and spill_slot_count is above every index
\* handed out.
C40_GpAndFpSlotsApart ==
  /\ \A j \in 1..Len(history.allocated) : \A k \in j..Len(history.allocated) :
        history.allocated[j].kind = "FpuRegister" => history.allocated[k].kind = "FpuRegister"
  /\ \A k \in 1..Len(history.allocated) :
        (/\ history.allocated[k].kind = "FpuRegister"
         /\ (k = 1 \/ history.allocated[k - 1].kind # "FpuRegister"))
          => history.allocated[k].before.expiry = <<>>
  /\ FpuPassStarted =>
        /\ cpu_spill_slot_count_ = Maximum(SlotsOfCpuPass, flow_graph_.fixed_slot_count)
        /\ \A e \in GpSlots : \A i \in VariableIndices(e) : 0 <= i /\ i < cpu_spill_slot_count_
        /\ \A e \in FpSlots : \A i \in VariableIndices(e) : cpu_spill_slot_count_ <= i
        /\ \A e \in GpSlots : \A f \in FpSlots : VariableIndices(e) \cap VariableIndices(f) = {}
  /\ phase \in {"RemoveFrameIfNotNeeded", "ResolveControlFlow", "Done"} =>
        \A e \in SeqToSet(history.allocated) :
           \A i \in VariableIndices(e) : i < graph_entry_.spill_slot_count

====
